---- MODULE Spec2Model ----
(***************************************************************************)
(* Model of backend-core/ai_service.py: the endpoint policy engine         *)
(* (NetworkSecurityGuard), the security gate (SecureLocalLLM.check_security)*)
(* and the service lifecycle and inference pipeline (SecureLocalLLM).       *)
(*                                                                         *)
(* Python strings are sequences of one-character strings, so that          *)
(* startswith / endswith / slicing / split are computed on characters.     *)
(***************************************************************************)
EXTENDS Naturals, Integers, Sequences, FiniteSets, TLC

VARIABLES
    config,                  \* SecureLocalLLM.security_config (shared with the guard)
    violation_count,         \* NetworkSecurityGuard._violation_count
    guard_lock,              \* NetworkSecurityGuard._lock (threading.Lock): holder or NoOne
    is_initialized,          \* SecureLocalLLM._is_initialized
    inference_count,         \* SecureLocalLLM._inference_count
    total_tokens_processed,  \* SecureLocalLLM._total_tokens_processed
    initialization_time,     \* SecureLocalLLM._initialization_time (None or elapsed)
    lock,                    \* SecureLocalLLM._lock (threading.RLock): [owner, count]
    pc,                      \* per caller: position in the running method
    op,                      \* per caller: the public method it is running
    loc,                     \* per caller: local variables of the running method
    ret,                     \* the last call that finished: its caller and its outcome
    calls,                   \* number of public calls started so far
    hist                     \* history: what has been executed so far

vars == << config, violation_count, guard_lock, is_initialized, inference_count,
           total_tokens_processed, initialization_time, lock, pc, op, loc, ret,
           calls, hist >>

-----------------------------------------------------------------------------
(* Bounds of the model *)

\* number of concurrent callers (threads)
NumCallers == 2

\* public calls started in one behaviour
MaxCalls == 3

\* longest hostname drawn for the policy-engine specification
MaxHostLen == 3

\* longest deny list drawn for the policy-engine specification
MaxDenyLen == 2

Callers == 1..NumCallers

NoOne == 0

-----------------------------------------------------------------------------
(* Python string operations on character sequences *)

\* str.startswith(prefix)
StartsWith(s, prefix) ==
    /\ Len(prefix) <= Len(s)
    /\ SubSeq(s, 1, Len(prefix)) = prefix

\* str.endswith(suffix)
EndsWith(s, suffix) ==
    /\ Len(suffix) <= Len(s)
    /\ SubSeq(s, Len(s) - Len(suffix) + 1, Len(s)) = suffix

\* s[1:] (the empty string stays empty)
DropFirst(s) == IF Len(s) = 0 THEN << >> ELSE Tail(s)

\* characters str.split() treats as separators
Whitespace == {" ", "\n", "\t", "\r"}

\* every non-whitespace character counts as a word
WordCountPerCharacter(s) ==
    Cardinality({ i \in 1..Len(s) : s[i] \notin Whitespace })

\* len(s.split()): split() cuts at runs of whitespace and drops empty pieces,
\* so there is one piece per position where a run of other characters ends
WordCount(s) ==
    Cardinality({ i \in 1..Len(s) :
                    /\ s[i] \notin Whitespace
                    /\ (i = Len(s) \/ s[i + 1] \in Whitespace) })

\* all character sequences over alphabet A of length at most n
StringsUpTo(A, n) == UNION { [1..k -> A] : k \in 0..n }

-----------------------------------------------------------------------------
(* SecurityConfig defaults *)

\* "api.openai.com"
api_openai_com ==
    << "a","p","i",".","o","p","e","n","a","i",".","c","o","m" >>

\* "api.anthropic.com"
api_anthropic_com ==
    << "a","p","i",".","a","n","t","h","r","o","p","i","c",".","c","o","m" >>

\* "*.openai.azure.com"
wild_openai_azure_com ==
    << "*",".","o","p","e","n","a","i",".","a","z","u","r","e",".","c","o","m" >>

\* "bedrock.*.amazonaws.com"
bedrock_wild_amazonaws_com ==
    << "b","e","d","r","o","c","k",".","*",".","a","m","a","z","o","n","a","w",
       "s",".","c","o","m" >>

\* "generativelanguage.googleapis.com"
generativelanguage_googleapis_com ==
    << "g","e","n","e","r","a","t","i","v","e","l","a","n","g","u","a","g","e",
       ".","g","o","o","g","l","e","a","p","i","s",".","c","o","m" >>

\* "api.cohere.ai"
api_cohere_ai ==
    << "a","p","i",".","c","o","h","e","r","e",".","a","i" >>

\* "api-inference.huggingface.co"
api_inference_huggingface_co ==
    << "a","p","i","-","i","n","f","e","r","e","n","c","e",".","h","u","g","g",
       "i","n","g","f","a","c","e",".","c","o" >>

\* "*.replicate.com"
wild_replicate_com ==
    << "*",".","r","e","p","l","i","c","a","t","e",".","c","o","m" >>

\* "localhost"
localhost == << "l","o","c","a","l","h","o","s","t" >>

\* "127.0.0.1"
ip_127_0_0_1 == << "1","2","7",".","0",".","0",".","1" >>

\* "model-server.internal"
model_server_internal ==
    << "m","o","d","e","l","-","s","e","r","v","e","r",".","i","n","t","e","r",
       "n","a","l" >>

\* "gpu-cluster.internal"
gpu_cluster_internal ==
    << "g","p","u","-","c","l","u","s","t","e","r",".","i","n","t","e","r","n",
       "a","l" >>

\* "redis.internal"
redis_internal ==
    << "r","e","d","i","s",".","i","n","t","e","r","n","a","l" >>

\* "postgres.internal"
postgres_internal ==
    << "p","o","s","t","g","r","e","s",".","i","n","t","e","r","n","a","l" >>

\* SecurityConfig.blocked_domains default
DefaultBlockedDomains ==
    << api_openai_com, api_anthropic_com, wild_openai_azure_com,
       bedrock_wild_amazonaws_com, generativelanguage_googleapis_com,
       api_cohere_ai, api_inference_huggingface_co, wild_replicate_com >>

\* SecurityConfig.allowed_endpoints default
DefaultAllowedEndpoints ==
    { localhost, ip_127_0_0_1, model_server_internal, gpu_cluster_internal,
      redis_internal, postgres_internal }

\* SecurityConfig(): the dataclass with its defaults
DefaultSecurityConfig ==
    [ air_gapped_mode               |-> TRUE,
      blocked_domains               |-> DefaultBlockedDomains,
      allowed_endpoints             |-> DefaultAllowedEndpoints,
      require_encryption_at_rest    |-> TRUE,
      require_encryption_in_transit |-> TRUE ]

-----------------------------------------------------------------------------
(* NetworkSecurityGuard.validate_endpoint: the decision *)

\* a wildcard entry drops the dot: hostname.endswith(blocked[1:][1:])
WildcardMatchesNoDot(blocked, hostname) ==
    LET suffix == DropFirst(blocked)
    IN  EndsWith(hostname, DropFirst(suffix))

\* blocked.startswith("*"): hostname.endswith(suffix) or hostname == suffix[1:]
WildcardMatches(blocked, hostname) ==
    LET suffix == DropFirst(blocked)
    IN  EndsWith(hostname, suffix) \/ hostname = DropFirst(suffix)

\* an exact entry matches any hostname it is a suffix of
ExactMatchesNoDot(blocked, hostname) == EndsWith(hostname, blocked)

\* hostname == blocked or hostname.endswith(f".{blocked}")
ExactMatches(blocked, hostname) ==
    hostname = blocked \/ EndsWith(hostname, << "." >> \o blocked)

\* one iteration of the loop over blocked_domains
DenyMatches(blocked, hostname) ==
    IF StartsWith(blocked, << "*" >>)
    THEN WildcardMatches(blocked, hostname)
    ELSE ExactMatches(blocked, hostname)

\* the last matching entry instead of the first
LastDenyIndex(blocked_domains, hostname) ==
    LET hits == { i \in 1..Len(blocked_domains) :
                    DenyMatches(blocked_domains[i], hostname) }
    IN  IF hits = {} THEN 0
        ELSE CHOOSE i \in hits : \A j \in hits : j <= i

\* `for blocked in self.config.blocked_domains` from entry i on: the index of
\* the entry at which the loop returns (0: the loop ends without a match)
RECURSIVE FirstDenyFrom(_, _, _)
FirstDenyFrom(blocked_domains, hostname, i) ==
    IF i > Len(blocked_domains) THEN 0
    ELSE IF DenyMatches(blocked_domains[i], hostname) THEN i
    ELSE FirstDenyFrom(blocked_domains, hostname, i + 1)

\* the loop returns at the first matching entry, in configured order (0: none)
FirstDenyIndex(blocked_domains, hostname) ==
    FirstDenyFrom(blocked_domains, hostname, 1)

NoPattern == << >>

\* the whitelist is consulted before the deny list
DecideAllowFirst(cfg, hostname) ==
    LET i == FirstDenyIndex(cfg.blocked_domains, hostname)
    IN  IF hostname \in cfg.allowed_endpoints
        THEN [ allowed   |-> TRUE,
               violation |-> FALSE,
               reason    |-> [ msg |-> "Endpoint whitelisted", pattern |-> NoPattern ] ]
        ELSE IF i # 0
        THEN [ allowed   |-> FALSE,
               violation |-> TRUE,
               reason    |->
                 [ msg     |-> IF StartsWith(cfg.blocked_domains[i], << "*" >>)
                               THEN "Domain blocked by security policy"
                               ELSE "Domain explicitly blocked",
                   pattern |-> cfg.blocked_domains[i] ] ]
        ELSE IF cfg.air_gapped_mode
        THEN [ allowed   |-> FALSE,
               violation |-> TRUE,
               reason    |-> [ msg     |-> "Air-gapped mode: only whitelisted endpoints allowed",
                               pattern |-> NoPattern ] ]
        ELSE [ allowed   |-> TRUE,
               violation |-> FALSE,
               reason    |-> [ msg |-> "Endpoint allowed", pattern |-> NoPattern ] ]

\* the air-gapped default is applied before the whitelist is consulted
DecideAirGapFirst(cfg, hostname) ==
    LET i == FirstDenyIndex(cfg.blocked_domains, hostname)
    IN  IF i # 0
        THEN [ allowed   |-> FALSE,
               violation |-> TRUE,
               reason    |->
                 [ msg     |-> IF StartsWith(cfg.blocked_domains[i], << "*" >>)
                               THEN "Domain blocked by security policy"
                               ELSE "Domain explicitly blocked",
                   pattern |-> cfg.blocked_domains[i] ] ]
        ELSE IF cfg.air_gapped_mode
        THEN [ allowed   |-> FALSE,
               violation |-> TRUE,
               reason    |-> [ msg     |-> "Air-gapped mode: only whitelisted endpoints allowed",
                               pattern |-> NoPattern ] ]
        ELSE IF hostname \in cfg.allowed_endpoints
        THEN [ allowed   |-> TRUE,
               violation |-> FALSE,
               reason    |-> [ msg |-> "Endpoint whitelisted", pattern |-> NoPattern ] ]
        ELSE [ allowed   |-> TRUE,
               violation |-> FALSE,
               reason    |-> [ msg |-> "Endpoint allowed", pattern |-> NoPattern ] ]

\* validate_endpoint without its side effect: the returned (is_allowed, reason)
\* and whether _record_violation is called on the way
Decide(cfg, hostname) ==
    LET i == FirstDenyIndex(cfg.blocked_domains, hostname)
    IN  IF i # 0
        THEN [ allowed   |-> FALSE,
               violation |-> TRUE,
               reason    |->
                 [ msg     |-> IF StartsWith(cfg.blocked_domains[i], << "*" >>)
                               THEN "Domain blocked by security policy"
                               ELSE "Domain explicitly blocked",
                   pattern |-> cfg.blocked_domains[i] ] ]
        ELSE IF hostname \in cfg.allowed_endpoints
        THEN [ allowed   |-> TRUE,
               violation |-> FALSE,
               reason    |-> [ msg |-> "Endpoint whitelisted", pattern |-> NoPattern ] ]
        ELSE IF cfg.air_gapped_mode
        THEN [ allowed   |-> FALSE,
               violation |-> TRUE,
               reason    |-> [ msg     |-> "Air-gapped mode: only whitelisted endpoints allowed",
                               pattern |-> NoPattern ] ]
        ELSE [ allowed   |-> TRUE,
               violation |-> FALSE,
               reason    |-> [ msg |-> "Endpoint allowed", pattern |-> NoPattern ] ]

-----------------------------------------------------------------------------
(* Texts of the inference stand-in and of the analysis prompt *)

\* the text _simulate_inference returns
SimulatedText ==
    << "B","a","s","e","d"," ","o","n"," ","t","h","e"," ","a","n","a",
       "l","y","s","i","s"," ","o","f"," ","t","h","e"," ","p","r","o",
       "v","i","d","e","d"," ","d","a","t","a",","," ","t","h","e"," ",
       "p","o","l","l","u","t","i","o","n"," ","l","e","v","e","l","s",
       " ","i","n","d","i","c","a","t","e"," ","m","o","d","e","r","a",
       "t","e"," ","t","o"," ","s","e","v","e","r","e"," ","a","i","r",
       " ","q","u","a","l","i","t","y"," ","d","e","g","r","a","d","a",
       "t","i","o","n","."," ","P","r","i","m","a","r","y"," ","s","o",
       "u","r","c","e","s"," ","a","p","p","e","a","r"," ","t","o"," ",
       "b","e"," ","v","e","h","i","c","u","l","a","r"," ","e","m","i",
       "s","s","i","o","n","s"," ","a","n","d"," ","i","n","d","u","s",
       "t","r","i","a","l"," ","a","c","t","i","v","i","t","y","."," ",
       "R","e","c","o","m","m","e","n","d","e","d"," ","a","c","t","i",
       "o","n","s"," ","i","n","c","l","u","d","e"," ","i","n","c","r",
       "e","a","s","e","d"," ","m","o","n","i","t","o","r","i","n","g",
       ","," ","p","u","b","l","i","c"," ","a","d","v","i","s","o","r",
       "y"," ","i","s","s","u","a","n","c","e",","," ","a","n","d"," ",
       "c","o","o","r","d","i","n","a","t","i","o","n"," ","w","i","t",
       "h"," ","t","r","a","f","f","i","c"," ","a","u","t","h","o","r",
       "i","t","i","e","s"," ","f","o","r"," ","p","o","t","e","n","t",
       "i","a","l"," ","v","e","h","i","c","l","e"," ","r","e","s","t",
       "r","i","c","t","i","o","n","s"," ","i","n"," ","a","f","f","e",
       "c","t","e","d"," ","z","o","n","e","s","." >>

\* the prompt template up to the location
PromptHead ==
    << "\n","A","n","a","l","y","z","e"," ","t","h","e"," ","f","o","l",
       "l","o","w","i","n","g"," ","p","o","l","l","u","t","i","o","n",
       " ","r","e","p","o","r","t"," ","a","n","d"," ","p","r","o","v",
       "i","d","e",":","\n","1","."," ","A","s","s","e","s","s","m","e",
       "n","t"," ","o","f"," ","p","o","l","l","u","t","i","o","n"," ",
       "s","e","v","e","r","i","t","y","\n","2","."," ","L","i","k","e",
       "l","y"," ","s","o","u","r","c","e","s"," ","o","f"," ","p","o",
       "l","l","u","t","i","o","n","\n","3","."," ","R","e","c","o","m",
       "m","e","n","d","e","d"," ","a","c","t","i","o","n","s","\n","4",
       "."," ","H","e","a","l","t","h"," ","a","d","v","i","s","o","r",
       "y"," ","i","f"," ","n","e","e","d","e","d","\n","\n","R","e","p",
       "o","r","t"," ","D","a","t","a",":","\n","-"," ","L","o","c","a",
       "t","i","o","n",":"," " >>

\* template text before the PM2.5 value
PromptPM25 == <<"\n","-"," ","P","M","2",".","5",":"," ">>

\* template text before the PM10 value (MICRO, CUBED: the two non-ASCII characters)
PromptPM10 == <<" ","MICRO","g","/","m","CUBED","\n","-"," ","P","M","1","0",":"," ">>

\* template text before the AQI value
PromptAQI == <<" ","MICRO","g","/","m","CUBED","\n","-"," ","A","Q","I",":"," ">>

\* template text before the description
PromptDescription == <<"\n","-"," ","D","e","s","c","r","i","p","t","i","o","n",":"," ">>

\* template text before the timestamp
PromptTime == <<"\n","-"," ","T","i","m","e",":"," ">>

\* the end of the prompt template
PromptTail ==
    << "\n","\n","P","r","o","v","i","d","e"," ","a","n","a","l","y","s",
       "i","s"," ","i","n"," ","a"," ","s","t","r","u","c","t","u","r",
       "e","d"," ","f","o","r","m","a","t",".","\n" >>

\* 'Unknown'
Str_Unknown == <<"U","n","k","n","o","w","n">>

\* 'N/A'
Str_NA == <<"N","/","A">>

\* 'No description'
Str_NoDescription == <<"N","o"," ","d","e","s","c","r","i","p","t","i","o","n">>

\* sample location
Loc_ConnaughtPlace ==
    << "C","o","n","n","a","u","g","h","t"," ","P","l","a","c","e",",",
       " ","N","e","w"," ","D","e","l","h","i" >>

\* sample description
Desc_HeavySmog ==
    << "H","e","a","v","y"," ","s","m","o","g"," ","o","b","s","e","r",
       "v","e","d",","," ","v","i","s","i","b","i","l","i","t","y"," ",
       "r","e","d","u","c","e","d"," ","t","o"," ","2","0","0","m" >>

\* a datetime.isoformat() timestamp
Time_Sample ==
    << "2","0","2","4","-","0","1","-","1","5","T","1","0",":","3","0",
       ":","0","0","+","0","0",":","0","0" >>

\* sample report id
ReportId_Sample == <<"R","P","T","-","2","0","2","4","-","0","0","1","2","3","4">>

-----------------------------------------------------------------------------
(* Optional values: None is the empty sequence, a value v is << v >> *)

NoValue == << >>

Some(v) == << v >>

\* Python's `x or default`: the default replaces None and every falsy value
OrDefault(x, default) ==
    IF x = NoValue \/ x[1] = 0 THEN default ELSE x[1]

\* dict.get(key, default)
GetOr(field, default) == IF field = NoValue THEN default ELSE field[1]

Digits == << "0", "1", "2", "3", "4", "5", "6", "7", "8", "9" >>

\* str(n) of an integer
RECURSIVE IntToStr(_)
IntToStr(n) ==
    IF n < 0 THEN << "-" >> \o IntToStr(0 - n)
    ELSE IF n < 10 THEN << Digits[n + 1] >>
    ELSE IntToStr(n \div 10) \o << Digits[(n % 10) + 1] >>

\* the formatted value of a numeric report field, or the placeholder
NumberOr(field, default) ==
    IF field = NoValue THEN default ELSE IntToStr(field[1])

-----------------------------------------------------------------------------
(* ModelConfig defaults and constants of the service *)

\* ModelConfig.max_new_tokens
max_new_tokens == 1024

\* ModelConfig.temperature, in tenths (0.7)
temperature_tenths == 7

\* analyze_pollution_report: max_tokens=512
analysis_max_tokens == 512

\* analyze_pollution_report: temperature=0.3, in tenths
analysis_temperature_tenths == 3

\* check_security: total_checks
total_checks == 4

\* check_security: blocked_apis, the fixed probe set
blocked_apis ==
    << api_openai_com, api_anthropic_com, generativelanguage_googleapis_com >>

\* _build_pollution_analysis_prompt
BuildPollutionAnalysisPrompt(report_data) ==
    PromptHead \o GetOr(report_data.location, Str_Unknown)
      \o PromptPM25 \o NumberOr(report_data.pm25, Str_NA)
      \o PromptPM10 \o NumberOr(report_data.pm10, Str_NA)
      \o PromptAQI \o NumberOr(report_data.aqi, Str_NA)
      \o PromptDescription \o GetOr(report_data.description, Str_NoDescription)
      \o PromptTime \o GetOr(report_data.timestamp, Str_Unknown)
      \o PromptTail

\* _assess_severity
\* the thresholds are exclusive
AssessSeverityExclusive(report_data) ==
    LET aqi == GetOr(report_data.aqi, 0)
    IN  IF aqi > 400 THEN "SEVERE"
        ELSE IF aqi > 300 THEN "VERY_POOR"
        ELSE IF aqi > 200 THEN "POOR"
        ELSE IF aqi > 100 THEN "MODERATE"
        ELSE "SATISFACTORY"

\* _assess_severity(report_data)
AssessSeverity(report_data) ==
    LET aqi == GetOr(report_data.aqi, 0)
    IN  IF aqi >= 400 THEN "SEVERE"
        ELSE IF aqi >= 300 THEN "VERY_POOR"
        ELSE IF aqi >= 200 THEN "POOR"
        ELSE IF aqi >= 100 THEN "MODERATE"
        ELSE "SATISFACTORY"

\* _extract_recommendations: a fixed list of four recommendations
ExtractRecommendations(analysis_text) ==
    << "Increase monitoring frequency in affected area",
       "Issue health advisory for sensitive groups",
       "Coordinate with traffic management for vehicle restrictions",
       "Deploy additional mobile monitoring units" >>

\* _simulate_inference: the stand-in returns one fixed text
SimulateInference(prompt, max_tokens) == SimulatedText

\* _verify_local_model_only: environment findings are logged, never fail
VerifyLocalModelOnly == TRUE

-----------------------------------------------------------------------------
(* Inputs drawn by the callers *)

\* configurations a service is constructed with
ServiceConfigs ==
    { DefaultSecurityConfig,
      [ DefaultSecurityConfig EXCEPT !.air_gapped_mode = FALSE ],
      [ DefaultSecurityConfig EXCEPT
          !.blocked_domains = << api_openai_com, wild_replicate_com >>,
          !.allowed_endpoints = { localhost, api_anthropic_com } ] }

\* "evil.example"
evil_example == << "e","v","i","l",".","e","x","a","m","p","l","e" >>

\* hostnames passed to validate_endpoint by callers of the service
ServiceHostnames == { localhost, evil_example }

\* "AQI  today" (two words, two spaces)
Prompt_AqiToday == << "A","Q","I"," "," ","t","o","d","a","y" >>

\* " smog\n" (one word)
Prompt_Smog == << " ","s","m","o","g","\n" >>

\* arguments of generate: prompt, max_tokens, temperature (tenths), classification
GenerateArgs ==
    { [ prompt |-> Prompt_AqiToday, max_tokens |-> NoValue,
        temperature |-> NoValue, classification |-> "INTERNAL" ],
      [ prompt |-> Prompt_Smog, max_tokens |-> Some(0),
        temperature |-> Some(0), classification |-> "PUBLIC" ] }

\* a report with no field at all
EmptyReport ==
    [ report_id |-> NoValue, location |-> NoValue, pm25 |-> NoValue,
      pm10 |-> NoValue, aqi |-> NoValue, description |-> NoValue,
      timestamp |-> NoValue ]

\* the sample report of the entry point
SampleReport ==
    [ report_id |-> Some(ReportId_Sample), location |-> Some(Loc_ConnaughtPlace),
      pm25 |-> Some(245), pm10 |-> Some(389), aqi |-> Some(312),
      description |-> Some(Desc_HeavySmog), timestamp |-> Some(Time_Sample) ]

\* reports passed to analyze_pollution_report
Reports == { SampleReport }

\* elapsed initialization time a clock measures (whole seconds); assignments
\* to _initialization_time are counted in hist.time_sets
ElapsedTimes == { 1 }

-----------------------------------------------------------------------------
(* Locals, results and history *)

NoResult ==
    [ allowed |-> FALSE, violation |-> FALSE,
      reason |-> [ msg |-> "", pattern |-> NoPattern ] ]

NoSnapshot ==
    [ is_initialized |-> FALSE, model_loaded |-> FALSE, security_check |-> FALSE,
      inference_count |-> 0, total_tokens_processed |-> 0,
      initialization_time_seconds |-> NoValue ]

\* the locals of a caller that runs nothing
LocInit ==
    [ hostname       |-> << >>,      \* validate_endpoint: hostname
      result         |-> NoResult,   \* validate_endpoint: value being returned
      tmp            |-> 0,          \* value loaded by an in-place addition
      probe          |-> 0,          \* check_security: index into blocked_apis
      all_blocked    |-> TRUE,       \* check_security: all_blocked
      checks_passed  |-> 0,          \* check_security: checks_passed
      prompt         |-> << >>,      \* generate: prompt
      max_tokens     |-> NoValue,    \* generate: max_tokens
      temperature    |-> NoValue,    \* generate: temperature
      classification |-> "INTERNAL", \* generate: classification
      generated_text |-> << >>,      \* generate: generated_text
      report_data    |-> EmptyReport,\* analyze_pollution_report: report_data
      snapshot       |-> NoSnapshot, \* values read so far by a statistics or health call
      count_at_call  |-> 0,          \* history: the counter when the call started
                                     \* (_violation_count, or _inference_count)
      inferences_at_entry |-> 0,     \* history: _inference_count when generate took the lock
      tokens_at_entry     |-> 0 ]    \* history: _total_tokens_processed at that time

HistInit ==
    [ init_calls     |-> 0,   \* initialize calls that took the lock
      gate_passed    |-> 0,   \* check_security runs inside initialize that returned True
      gate_runs      |-> 0,   \* check_security runs started
      load_weights   |-> 0,   \* _simulate_model_loading runs
      load_tokenizer |-> 0,   \* _simulate_tokenizer_loading runs
      warmups        |-> 0,   \* _run_warmup runs
      inferences     |-> 0,   \* _simulate_inference runs
      generated      |-> 0,   \* generate calls that returned a result
      tokens         |-> 0,   \* sum of their word counts, prompt plus generated text
      time_sets      |-> 0,   \* assignments to _initialization_time
      denials        |-> 0 ]  \* validate_endpoint calls that returned allowed=False

TypeOK ==
    /\ violation_count \in Nat
    /\ guard_lock \in Callers \cup {NoOne}
    /\ is_initialized \in BOOLEAN
    /\ inference_count \in Nat
    /\ total_tokens_processed \in Nat
    /\ lock.owner \in Callers \cup {NoOne}
    /\ lock.count \in Nat
    /\ calls \in 0..MaxCalls

-----------------------------------------------------------------------------
(* The two locks *)

\* a lock that excludes nobody
CanAcquireAlways(t) == TRUE

\* threading.RLock.acquire returns when the lock is free or held by the caller
CanAcquire(t) == lock.owner = NoOne \/ lock.owner = t

\* acquire leaves the lock as it found it
AcquiredNothing(lk, t) == lk

\* RLock.acquire on lock value lk: the caller owns it, one level deeper
Acquired(lk, t) == [ owner |-> t, count |-> lk.count + 1 ]

\* release leaves the lock with its owner
ReleasedNever(lk) == lk

\* RLock.release on lock value lk: one level up, free at level zero
Released(lk) ==
    IF lk.count <= 1 THEN [ owner |-> NoOne, count |-> 0 ]
    ELSE [ owner |-> lk.owner, count |-> lk.count - 1 ]

\* a guard lock that excludes nobody
GuardLockFreeAlways == TRUE

\* threading.Lock.acquire returns when the lock is free
GuardLockFree == guard_lock = NoOne

-----------------------------------------------------------------------------
(* Calling and returning *)

\* the number of words of s: the positions where a word starts
WordsIn(s) ==
    Cardinality({ i \in 1..Len(s) :
                    /\ s[i] \notin Whitespace
                    /\ (i = 1 \/ s[i - 1] \in Whitespace) })

\* no call finished in this step
NoReturn == [ caller |-> NoOne, value |-> [ kind |-> "none" ] ]

\* caller t may start a public call
CanCall(t) ==
    /\ pc[t] = "idle"
    /\ calls < MaxCalls

\* caller t goes on in method `name` at position `at` with locals l
Goto(t, name, at, l) ==
    /\ pc' = [pc EXCEPT ![t] = at]
    /\ op' = [op EXCEPT ![t] = name]
    /\ loc' = [loc EXCEPT ![t] = l]
    /\ ret' = NoReturn

\* the call of caller t finishes with `value` as its outcome
Finish(t, value) ==
    /\ pc' = [pc EXCEPT ![t] = "idle"]
    /\ op' = [op EXCEPT ![t] = "none"]
    /\ loc' = [loc EXCEPT ![t] = LocInit]
    /\ ret' = [ caller |-> t, value |-> value ]

\* what validate_endpoint hands back, with the counter seen at call and at return
ValidateReturn(l, after) ==
    [ kind              |-> "validate_endpoint",
      hostname          |-> l.hostname,
      allowed           |-> l.result.allowed,
      reason            |-> l.result.reason,
      violations_before |-> l.count_at_call,
      violations_after  |-> after ]

\* history: one more denial when the returned verdict is a denial
CountDenial(h, r) ==
    [ h EXCEPT !.denials = IF r.allowed THEN @ ELSE @ + 1 ]

-----------------------------------------------------------------------------
(* SecureLocalLLM.check_security, run inside initialize or health_check.      *)
(* The gate reads the configuration, which nothing changes, and touches     *)
(* shared state only where validate_endpoint records a violation; the code  *)
(* between two such places is one step of the caller.                       *)

\* CHECK 3 withholds its point when encryption is not fully configured
EncryptionCheckCritical(cfg) ==
    IF cfg.require_encryption_at_rest /\ cfg.require_encryption_in_transit
    THEN 1 ELSE 0

\* CHECK 3: both branches count the check as passed
EncryptionCheck(cfg) ==
    IF cfg.require_encryption_at_rest /\ cfg.require_encryption_in_transit
    THEN 1 ELSE 1

\* the gate passes although a probe was allowed
GateVerdictIgnoringProbes(cfg, all_blocked, checks_passed) ==
    checks_passed + 1 + EncryptionCheck(cfg) + 1 = total_checks

\* the end of CHECK 2, CHECK 3, CHECK 4 and the final result
GateVerdict(cfg, all_blocked, checks_passed) ==
    IF ~all_blocked THEN FALSE
    ELSE IF ~VerifyLocalModelOnly THEN FALSE
    ELSE checks_passed + 1 + EncryptionCheck(cfg) + 1 = total_checks

\* the loop is left at the first allowed probe
RECURSIVE ProbeLoopBreaks(_, _, _)
ProbeLoopBreaks(cfg, i, all_blocked) ==
    IF i > Len(blocked_apis)
    THEN [ pending |-> FALSE, probe |-> i, all_blocked |-> all_blocked ]
    ELSE LET r == Decide(cfg, blocked_apis[i])
         IN  IF r.violation
             THEN [ pending |-> TRUE, probe |-> i, all_blocked |-> all_blocked ]
             ELSE IF r.allowed
             THEN [ pending |-> FALSE, probe |-> i + 1, all_blocked |-> FALSE ]
             ELSE ProbeLoopBreaks(cfg, i + 1, all_blocked)

\* an allowed probe is logged but all_blocked stays as it was
RECURSIVE ProbeLoopKeepsAllBlocked(_, _, _)
ProbeLoopKeepsAllBlocked(cfg, i, all_blocked) ==
    IF i > Len(blocked_apis)
    THEN [ pending |-> FALSE, probe |-> i, all_blocked |-> all_blocked ]
    ELSE LET r == Decide(cfg, blocked_apis[i])
         IN  IF r.violation
             THEN [ pending |-> TRUE, probe |-> i, all_blocked |-> all_blocked ]
             ELSE ProbeLoopKeepsAllBlocked(cfg, i + 1, all_blocked)

\* `for api in blocked_apis` from iteration i on, up to the next probe whose
\* validate_endpoint records a violation (pending) or to the end of the loop;
\* an allowed probe clears all_blocked and the loop goes on
RECURSIVE ProbeLoop(_, _, _)
ProbeLoop(cfg, i, all_blocked) ==
    IF i > Len(blocked_apis)
    THEN [ pending |-> FALSE, probe |-> i, all_blocked |-> all_blocked ]
    ELSE LET r == Decide(cfg, blocked_apis[i])
         IN  IF r.violation
             THEN [ pending |-> TRUE, probe |-> i, all_blocked |-> all_blocked ]
             ELSE ProbeLoop(cfg, i + 1, IF r.allowed THEN FALSE ELSE all_blocked)

\* initialize goes on to load the model whatever check_security returned
GateReturnIgnoringVerdict(t, name, l, h, lk, passed) ==
    IF name = "initialize"
    THEN /\ Goto(t, name, "init_loading", l)
         /\ hist' = [h EXCEPT !.gate_passed = IF passed THEN @ + 1 ELSE @]
         /\ lock' = lk
    ELSE /\ Goto(t, name, "hc_count", [ l EXCEPT !.snapshot.security_check = passed ])
         /\ hist' = h
         /\ lock' = lk

\* check_security returns `passed` to method `name` of caller t
\* (l: the caller's locals, h: the history, lk: the service lock, so far)
GateReturn(t, name, l, h, lk, passed) ==
    IF name = "initialize"
    THEN IF passed
         THEN /\ Goto(t, name, "init_loading", l)
              /\ hist' = [h EXCEPT !.gate_passed = @ + 1]
              /\ lock' = lk
         ELSE \* return False, leaving the `with self._lock` block
              /\ Finish(t, [ kind |-> "initialize", value |-> FALSE ])
              /\ hist' = h
              /\ lock' = Released(lk)
    ELSE /\ Goto(t, name, "hc_count", [ l EXCEPT !.snapshot.security_check = passed ])
         /\ hist' = h
         /\ lock' = lk

\* the gate goes on after the loop stopped as `scan` says: into
\* _record_violation for the pending probe, or on to the verdict
GateContinue(t, name, l, h, lk, scan) ==
    IF scan.pending
    THEN /\ Goto(t, name, "rv_lock",
                 [ l EXCEPT !.probe = scan.probe,
                            !.all_blocked = scan.all_blocked,
                            !.hostname = blocked_apis[scan.probe],
                            !.result = Decide(config, blocked_apis[scan.probe]),
                            !.tmp = 0 ])
         /\ hist' = h
         /\ lock' = lk
    ELSE GateReturn(t, name,
                    [ l EXCEPT !.probe = 0, !.all_blocked = TRUE, !.checks_passed = 0,
                               !.hostname = << >>, !.result = NoResult, !.tmp = 0 ],
                    h, lk,
                    GateVerdict(config, scan.all_blocked, l.checks_passed))

\* CHECK 1 only withholds its point: the probes run in any mode
CheckSecurityAirGapLate(t, name, l, h, lk) ==
    LET h1 == [h EXCEPT !.gate_runs = @ + 1]
    IN  GateContinue(t, name,
                     [ l EXCEPT !.checks_passed = IF config.air_gapped_mode THEN 1 ELSE 0 ],
                     h1, lk, ProbeLoop(config, 1, TRUE))

\* check_security(): CHECK 1 returns False at once when air-gapped mode is
\* off; otherwise the loop over blocked_apis starts
CheckSecurity(t, name, l, h, lk) ==
    LET h1 == [h EXCEPT !.gate_runs = @ + 1]
    IN  IF config.air_gapped_mode
        THEN GateContinue(t, name, [ l EXCEPT !.checks_passed = 1 ], h1, lk,
                          ProbeLoop(config, 1, TRUE))
        ELSE GateReturn(t, name, l, h1, lk, FALSE)

-----------------------------------------------------------------------------
(* NetworkSecurityGuard *)

\* validate_endpoint(hostname), called by a client of the guard: the decision;
\* an allowed endpoint is returned at once, a denied one goes on to
\* _record_violation
ValidateEndpoint(t, hostname) ==
    LET r == Decide(config, hostname)
        l == [ LocInit EXCEPT !.hostname = hostname, !.result = r,
                              !.count_at_call = violation_count ]
    IN  /\ CanCall(t)
        /\ calls' = calls + 1
        /\ IF r.violation
           THEN Goto(t, "validate_endpoint", "rv_lock", l)
           ELSE Finish(t, ValidateReturn(l, violation_count))
        /\ UNCHANGED << config, violation_count, guard_lock, is_initialized,
                        inference_count, total_tokens_processed,
                        initialization_time, lock, hist >>

\* _record_violation: `with self._lock`, and the load of self._violation_count
RecordViolationLoad(t) ==
    /\ pc[t] = "rv_lock"
    /\ GuardLockFree
    /\ guard_lock' = t
    /\ Goto(t, op[t], "rv_store", [ loc[t] EXCEPT !.tmp = violation_count ])
    /\ UNCHANGED << config, violation_count, is_initialized, inference_count,
                    total_tokens_processed, initialization_time, lock, calls, hist >>

\* the addition stores two more than it loaded
NextViolationCountTwice(loaded) == loaded + 2

\* self._violation_count += 1: the value stored
NextViolationCount(loaded) == loaded + 1

\* _record_violation: the store, the release of the lock, and the return of
\* validate_endpoint (False, reason) to its caller: a client of the guard, or
\* the loop of check_security, which goes on
RecordViolationStore(t) ==
    /\ pc[t] = "rv_store"
    /\ violation_count' = NextViolationCount(loc[t].tmp)
    /\ guard_lock' = NoOne
    /\ IF op[t] = "validate_endpoint"
       THEN /\ Finish(t, ValidateReturn(loc[t], violation_count'))
            /\ hist' = CountDenial(hist, loc[t].result)
            /\ lock' = lock
       ELSE GateContinue(t, op[t], loc[t], CountDenial(hist, loc[t].result), lock,
                         ProbeLoop(config, loc[t].probe + 1, loc[t].all_blocked))
    /\ UNCHANGED << config, is_initialized, inference_count,
                    total_tokens_processed, initialization_time, calls >>

-----------------------------------------------------------------------------
(* SecureLocalLLM.initialize *)

\* the early return is never taken
AlreadyInitializedNever == FALSE

\* `if self._is_initialized`, under the lock
AlreadyInitialized == is_initialized

\* initialize(): the lock is taken and _is_initialized is tested; a ready
\* service returns True at once ("Model already initialized"); otherwise
\* STEP 1 runs check_security under the lock
Initialize(t) ==
    /\ CanCall(t)
    /\ calls' = calls + 1
    /\ CanAcquire(t)
    /\ LET h == [hist EXCEPT !.init_calls = @ + 1]
       IN  IF AlreadyInitialized
           THEN /\ Finish(t, [ kind |-> "initialize", value |-> TRUE ])
                /\ lock' = Released(Acquired(lock, t))
                /\ hist' = h
           ELSE CheckSecurity(t, "initialize", LocInit, h, Acquired(lock, t))
    /\ UNCHANGED << config, violation_count, guard_lock, is_initialized,
                    inference_count, total_tokens_processed, initialization_time >>

\* STEP 2 to STEP 4: _simulate_model_loading, _simulate_tokenizer_loading,
\* _run_warmup
InitLoad(t) ==
    /\ pc[t] = "init_loading"
    /\ hist' = [hist EXCEPT !.load_weights = @ + 1,
                            !.load_tokenizer = @ + 1,
                            !.warmups = @ + 1]
    /\ Goto(t, op[t], "init_set", loc[t])
    /\ UNCHANGED << config, violation_count, guard_lock, is_initialized,
                    inference_count, total_tokens_processed, initialization_time,
                    lock, calls >>

\* STEP 5: self._is_initialized = True
InitSetInitialized(t) ==
    /\ pc[t] = "init_set"
    /\ is_initialized' = TRUE
    /\ Goto(t, op[t], "init_time", loc[t])
    /\ UNCHANGED << config, violation_count, guard_lock, inference_count,
                    total_tokens_processed, initialization_time, lock, calls, hist >>

\* self._initialization_time = time.time() - start_time; return True
InitFinish(t) ==
    /\ pc[t] = "init_time"
    /\ \E elapsed \in ElapsedTimes : initialization_time' = Some(elapsed)
    /\ lock' = Released(lock)
    /\ hist' = [hist EXCEPT !.time_sets = @ + 1]
    /\ Finish(t, [ kind |-> "initialize", value |-> TRUE ])
    /\ UNCHANGED << config, violation_count, guard_lock, is_initialized,
                    inference_count, total_tokens_processed, calls >>

-----------------------------------------------------------------------------
(* SecureLocalLLM.generate and analyze_pollution_report *)

\* the test before the lock never raises
NotInitializedNever == FALSE

\* `if not self._is_initialized`, read without the lock
NotInitialized == ~is_initialized

NotInitializedError ==
    [ kind |-> "raise", error |-> "RuntimeError",
      message |-> "Model not initialized. Call initialize() first." ]

\* generate(...) as called by `name`: the test of _is_initialized, then the
\* caller reaches `with self._lock`
StartGenerate(t, name, l) ==
    /\ CanCall(t)
    /\ calls' = calls + 1
    /\ IF NotInitialized
       THEN Finish(t, NotInitializedError)
       ELSE Goto(t, name, "gen_lock", [ l EXCEPT !.count_at_call = inference_count ])
    /\ UNCHANGED << config, violation_count, guard_lock, is_initialized,
                    inference_count, total_tokens_processed, initialization_time,
                    lock, hist >>

\* generate(prompt, max_tokens, temperature, classification)
Generate(t, args) ==
    StartGenerate(t, "generate",
                  [ LocInit EXCEPT !.prompt = args.prompt,
                                   !.max_tokens = args.max_tokens,
                                   !.temperature = args.temperature,
                                   !.classification = args.classification ])

\* analyze_pollution_report(report_data): the prompt is built, then generate is
\* called with max_tokens=512, temperature=0.3 and CONFIDENTIAL
AnalyzePollutionReport(t, report_data) ==
    StartGenerate(t, "analyze_pollution_report",
                  [ LocInit EXCEPT !.report_data = report_data,
                                   !.prompt = BuildPollutionAnalysisPrompt(report_data),
                                   !.max_tokens = Some(analysis_max_tokens),
                                   !.temperature = Some(analysis_temperature_tenths),
                                   !.classification = "CONFIDENTIAL" ])

\* the lock is taken; max_tokens and temperature fall back to the defaults
GenEnter(t) ==
    /\ pc[t] = "gen_lock"
    /\ CanAcquire(t)
    /\ lock' = Acquired(lock, t)
    /\ Goto(t, op[t], "gen_infer",
            [ loc[t] EXCEPT
                !.max_tokens = Some(OrDefault(@, max_new_tokens)),
                !.temperature = Some(OrDefault(@, temperature_tenths)),
                !.inferences_at_entry = inference_count,
                !.tokens_at_entry = total_tokens_processed ])
    /\ UNCHANGED << config, violation_count, guard_lock, is_initialized,
                    inference_count, total_tokens_processed, initialization_time,
                    calls, hist >>

\* generated_text = self._simulate_inference(prompt, max_tokens)
GenInfer(t) ==
    /\ pc[t] = "gen_infer"
    /\ Goto(t, op[t], "gen_count_load",
            [ loc[t] EXCEPT !.generated_text =
                              SimulateInference(loc[t].prompt, loc[t].max_tokens[1]) ])
    /\ hist' = [hist EXCEPT !.inferences = @ + 1]
    /\ UNCHANGED << config, violation_count, guard_lock, is_initialized,
                    inference_count, total_tokens_processed, initialization_time,
                    lock, calls >>

\* self._inference_count += 1: the load
GenCountLoad(t) ==
    /\ pc[t] = "gen_count_load"
    /\ Goto(t, op[t], "gen_count_store", [ loc[t] EXCEPT !.tmp = inference_count ])
    /\ UNCHANGED << config, violation_count, guard_lock, is_initialized,
                    inference_count, total_tokens_processed, initialization_time,
                    lock, calls, hist >>

\* the call is counted twice
NextInferenceCountTwice(loaded) == loaded + 2

\* self._inference_count += 1: the value stored
NextInferenceCount(loaded) == loaded + 1

\* self._inference_count += 1: the store
GenCountStore(t) ==
    /\ pc[t] = "gen_count_store"
    /\ inference_count' = NextInferenceCount(loc[t].tmp)
    /\ Goto(t, op[t], "gen_tokens_load", [ loc[t] EXCEPT !.tmp = 0 ])
    /\ UNCHANGED << config, violation_count, guard_lock, is_initialized,
                    total_tokens_processed, initialization_time, lock, calls, hist >>

\* self._total_tokens_processed += ...: the load
GenTokensLoad(t) ==
    /\ pc[t] = "gen_tokens_load"
    /\ Goto(t, op[t], "gen_tokens_store", [ loc[t] EXCEPT !.tmp = total_tokens_processed ])
    /\ UNCHANGED << config, violation_count, guard_lock, is_initialized,
                    inference_count, total_tokens_processed, initialization_time,
                    lock, calls, hist >>

\* characters are counted instead of words
CharsOfCall(prompt, generated_text) == Len(prompt) + Len(generated_text)

\* len(prompt.split()) + len(generated_text.split())
TokensOfCall(prompt, generated_text) ==
    WordCount(prompt) + WordCount(generated_text)

\* self._total_tokens_processed += ...: the store
GenTokensStore(t) ==
    /\ pc[t] = "gen_tokens_store"
    /\ total_tokens_processed' =
         loc[t].tmp + TokensOfCall(loc[t].prompt, loc[t].generated_text)
    /\ Goto(t, op[t], "gen_return", [ loc[t] EXCEPT !.tmp = 0 ])
    /\ UNCHANGED << config, violation_count, guard_lock, is_initialized,
                    inference_count, initialization_time, lock, calls, hist >>

\* the result dict of generate
GenerateResult(l) ==
    [ kind           |-> "generate",
      generated_text |-> l.generated_text,
      metadata       |->
        [ provider         |-> "LOCAL_LLAMA",
          tokens_generated |-> WordCount(l.generated_text),
          classification   |-> l.classification,
          security         |->
            [ air_gapped         |-> TRUE,
              external_api_calls |-> 0,
              data_locality      |-> "ON_PREMISE",
              compliance         |-> << "IT_ACT_2000", "CERT_IN", "DATA_LOCALIZATION" >> ] ],
      \* the parameters the call resolved
      max_tokens     |-> l.max_tokens[1],
      temperature    |-> l.temperature[1],
      \* history: _inference_count when the call started, and the counters as
      \* the call found them under the lock
      inferences_at_call  |-> l.count_at_call,
      inferences_at_entry |-> l.inferences_at_entry,
      tokens_at_entry     |-> l.tokens_at_entry ]

\* the analysis dict of analyze_pollution_report, built on generate's result
AnalysisResult(l) ==
    [ kind                |-> "analysis",
      report_id           |-> l.report_data.report_id,
      confidence_percent  |-> 94,
      recommendations     |-> ExtractRecommendations(l.generated_text),
      severity_assessment |-> AssessSeverity(l.report_data),
      generate            |-> GenerateResult(l) ]

\* generate returns its result and leaves the `with self._lock` block;
\* analyze_pollution_report post-processes it
GenReturn(t) ==
    /\ pc[t] = "gen_return"
    /\ lock' = Released(lock)
    /\ hist' = [hist EXCEPT
                  !.generated = @ + 1,
                  !.tokens = @ + WordsIn(loc[t].prompt) + WordsIn(loc[t].generated_text)]
    /\ Finish(t, IF op[t] = "analyze_pollution_report"
                 THEN AnalysisResult(loc[t])
                 ELSE GenerateResult(loc[t]))
    /\ UNCHANGED << config, violation_count, guard_lock, is_initialized,
                    inference_count, total_tokens_processed, initialization_time,
                    calls >>

-----------------------------------------------------------------------------
(* SecureLocalLLM.get_statistics and health_check: reads without the lock *)

\* get_statistics(): "is_initialized" is read (history: the two counters as
\* the call found them)
GetStatistics(t) ==
    /\ CanCall(t)
    /\ calls' = calls + 1
    /\ Goto(t, "get_statistics", "st_count",
            [ LocInit EXCEPT !.snapshot.is_initialized = is_initialized,
                             !.inferences_at_entry = inference_count,
                             !.tokens_at_entry = total_tokens_processed ])
    /\ UNCHANGED << config, violation_count, guard_lock, is_initialized,
                    inference_count, total_tokens_processed, initialization_time,
                    lock, hist >>

\* "inference_count" is read
StatsCount(t) ==
    /\ pc[t] = "st_count"
    /\ Goto(t, op[t], "st_tokens",
            [ loc[t] EXCEPT !.snapshot.inference_count = inference_count ])
    /\ UNCHANGED << config, violation_count, guard_lock, is_initialized,
                    inference_count, total_tokens_processed, initialization_time,
                    lock, calls, hist >>

\* "total_tokens_processed" is read
StatsTokens(t) ==
    /\ pc[t] = "st_tokens"
    /\ Goto(t, op[t], "st_time",
            [ loc[t] EXCEPT !.snapshot.total_tokens_processed = total_tokens_processed ])
    /\ UNCHANGED << config, violation_count, guard_lock, is_initialized,
                    inference_count, total_tokens_processed, initialization_time,
                    lock, calls, hist >>

\* "initialization_time_seconds" is read
StatsTime(t) ==
    /\ pc[t] = "st_time"
    /\ Goto(t, op[t], "st_violations",
            [ loc[t] EXCEPT !.snapshot.initialization_time_seconds = initialization_time ])
    /\ UNCHANGED << config, violation_count, guard_lock, is_initialized,
                    inference_count, total_tokens_processed, initialization_time,
                    lock, calls, hist >>

\* get_violation_count reads the counter and resets it
StatsViolationsResets(t) ==
    /\ pc[t] = "st_violations"
    /\ GuardLockFree
    /\ violation_count' = 0
    /\ Finish(t, [ kind                        |-> "statistics",
                   is_initialized              |-> loc[t].snapshot.is_initialized,
                   inference_count             |-> loc[t].snapshot.inference_count,
                   total_tokens_processed      |-> loc[t].snapshot.total_tokens_processed,
                   initialization_time_seconds |-> loc[t].snapshot.initialization_time_seconds,
                   security_violations         |-> violation_count,
                   air_gapped_mode             |-> config.air_gapped_mode ])
    /\ UNCHANGED << config, guard_lock, is_initialized,
                    inference_count, total_tokens_processed, initialization_time,
                    lock, calls, hist >>

\* "security_violations": get_violation_count() reads the counter under the
\* guard's lock; the dict is returned
StatsViolations(t) ==
    /\ pc[t] = "st_violations"
    /\ GuardLockFree
    /\ Finish(t, [ kind                        |-> "statistics",
                   is_initialized              |-> loc[t].snapshot.is_initialized,
                   inference_count             |-> loc[t].snapshot.inference_count,
                   total_tokens_processed      |-> loc[t].snapshot.total_tokens_processed,
                   initialization_time_seconds |-> loc[t].snapshot.initialization_time_seconds,
                   security_violations         |-> violation_count,
                   air_gapped_mode             |-> config.air_gapped_mode ])
    /\ UNCHANGED << config, violation_count, guard_lock, is_initialized,
                    inference_count, total_tokens_processed, initialization_time,
                    lock, calls, hist >>

\* health_check(): "status" reads _is_initialized
HealthCheck(t) ==
    /\ CanCall(t)
    /\ calls' = calls + 1
    /\ Goto(t, "health_check", "hc_loaded",
            [ LocInit EXCEPT !.snapshot.is_initialized = is_initialized ])
    /\ UNCHANGED << config, violation_count, guard_lock, is_initialized,
                    inference_count, total_tokens_processed, initialization_time,
                    lock, hist >>

\* "model_loaded" reads _is_initialized again; then "security_check" calls
\* check_security()
HealthLoaded(t) ==
    /\ pc[t] = "hc_loaded"
    /\ CheckSecurity(t, op[t],
                     [ loc[t] EXCEPT !.snapshot.model_loaded = is_initialized ],
                     hist, lock)
    /\ UNCHANGED << config, violation_count, guard_lock, is_initialized,
                    inference_count, total_tokens_processed, initialization_time,
                    calls >>

\* "inference_count" is read and the dict is returned
HealthCount(t) ==
    /\ pc[t] = "hc_count"
    /\ Finish(t, [ kind            |-> "health",
                   status          |-> IF loc[t].snapshot.is_initialized
                                       THEN "healthy" ELSE "initializing",
                   model_loaded    |-> loc[t].snapshot.model_loaded,
                   security_check  |-> loc[t].snapshot.security_check,
                   inference_count |-> inference_count ])
    /\ UNCHANGED << config, violation_count, guard_lock, is_initialized,
                    inference_count, total_tokens_processed, initialization_time,
                    lock, calls, hist >>

-----------------------------------------------------------------------------
(* The service under concurrent callers *)

\* SecureLocalLLM.__init__ and NetworkSecurityGuard.__init__
InitService(cfg) ==
    /\ config = cfg
    /\ violation_count = 0
    /\ guard_lock = NoOne
    /\ is_initialized = FALSE
    /\ inference_count = 0
    /\ total_tokens_processed = 0
    /\ initialization_time = NoValue
    /\ lock = [ owner |-> NoOne, count |-> 0 ]
    /\ pc = [ t \in Callers |-> "idle" ]
    /\ op = [ t \in Callers |-> "none" ]
    /\ loc = [ t \in Callers |-> LocInit ]
    /\ ret = NoReturn
    /\ calls = 0
    /\ hist = HistInit

Init == \E cfg \in ServiceConfigs : InitService(cfg)

Next ==
    \E t \in Callers :
        \/ Initialize(t)
        \/ InitLoad(t)
        \/ InitSetInitialized(t)
        \/ InitFinish(t)
        \/ \E args \in GenerateArgs : Generate(t, args)
        \/ \E report_data \in Reports : AnalyzePollutionReport(t, report_data)
        \/ GenEnter(t)
        \/ GenInfer(t)
        \/ GenCountLoad(t)
        \/ GenCountStore(t)
        \/ GenTokensLoad(t)
        \/ GenTokensStore(t)
        \/ GenReturn(t)
        \/ GetStatistics(t)
        \/ StatsCount(t)
        \/ StatsTokens(t)
        \/ StatsTime(t)
        \/ StatsViolations(t)
        \/ HealthCheck(t)
        \/ HealthLoaded(t)
        \/ HealthCount(t)
        \/ \E hostname \in ServiceHostnames : ValidateEndpoint(t, hostname)
        \/ RecordViolationLoad(t)
        \/ RecordViolationStore(t)

Spec == Init /\ [][Next]_vars

-----------------------------------------------------------------------------
(* The policy engine on its own: a NetworkSecurityGuard built over a drawn   *)
(* SecurityConfig and called by one client, one validate_endpoint at a time. *)

\* "*.a"
wild_dot_a == << "*", ".", "a" >>

\* "*a"
wild_a == << "*", "a" >>

\* "a.a"
a_dot_a == << "a", ".", "a" >>

\* "a"
just_a == << "a" >>

\* "aa"
a_a == << "a", "a" >>

\* "a."
a_dot == << "a", "." >>

\* entries a deny list is drawn from
GuardPatterns == { wild_dot_a, wild_a, a_dot_a, just_a }

\* blocked_domains: the lists of at most MaxDenyLen entries
GuardDenyLists == UNION { [1..k -> GuardPatterns] : k \in 0..MaxDenyLen }

\* allowed_endpoints
GuardAllowLists == { {}, { just_a, a_a, a_dot } }

\* hostnames: the strings of at most MaxHostLen characters, and the wildcard
\* entries read as hostnames
GuardHostnames == StringsUpTo({ "a", "." }, MaxHostLen) \cup { wild_dot_a, wild_a }

GuardConfigs ==
    { [ DefaultSecurityConfig EXCEPT !.blocked_domains = deny,
                                     !.allowed_endpoints = allow,
                                     !.air_gapped_mode = air_gapped ] :
        deny \in GuardDenyLists, allow \in GuardAllowLists, air_gapped \in BOOLEAN }

InitGuard == \E cfg \in GuardConfigs : InitService(cfg)

NextGuard ==
    \/ \E hostname \in GuardHostnames : ValidateEndpoint(1, hostname)
    \/ RecordViolationLoad(1)
    \/ RecordViolationStore(1)

SpecGuard == InitGuard /\ [][NextGuard]_vars

-----------------------------------------------------------------------------
(* Properties of the service (Spec) *)

\* methods that run generate
GenOps == { "generate", "analyze_pollution_report" }

\* positions of generate inside `with self._lock`
GenLockedPcs == { "gen_infer", "gen_count_load", "gen_count_store",
                  "gen_tokens_load", "gen_tokens_store", "gen_return" }

\* positions of initialize after check_security passed
InitLoadingPcs == { "init_loading", "init_set", "init_time" }

\* caller t is inside the body of initialize
InInitialize(t) == op[t] = "initialize" /\ pc[t] # "idle"

\* caller t is about to run, or has run, the engine inside generate
InGenerateBody(t) == op[t] \in GenOps /\ pc[t] \in GenLockedPcs

\* the step starts a call of caller t that is a call of generate or of
\* analyze_pollution_report
CallsGenerate(t) ==
    /\ pc[t] = "idle"
    /\ calls' = calls + 1
    /\ \/ op'[t] \in GenOps
       \/ ret'.caller = t /\ ret'.value.kind \in { "raise", "generate", "analysis" }

\* the step starts a call of initialize by caller t
CallsInitialize(t) ==
    /\ pc[t] = "idle"
    /\ calls' = calls + 1
    /\ \/ op'[t] = "initialize"
       \/ ret'.caller = t /\ ret'.value.kind = "initialize"

\* C1: every inference is preceded by a check_security that passed inside
\* initialize: while a caller is in the locked body of generate, and once
\* the engine has run at all, a gate run of initialize has returned True.
C1_InferenceAfterPassedGate ==
    ((\E t \in Callers : InGenerateBody(t)) \/ hist.inferences > 0)
        => hist.gate_passed >= 1

\* C1: the engine has run, after a gate that passed
C1_Witness == hist.inferences > 0 /\ hist.gate_passed >= 1

\* C2: generate or analyze_pollution_report called while the service is not
\* initialized raises the not-initialized error at once: the call ends in
\* that step, no inference runs, and both counters stay as they were.
C2_UninitializedGenerateRaises ==
    [][ \A t \in Callers :
          (CallsGenerate(t) /\ ~is_initialized) =>
              /\ ret' = [ caller |-> t, value |-> NotInitializedError ]
              /\ pc'[t] = "idle"
              /\ hist'.inferences = hist.inferences
              /\ inference_count' = inference_count
              /\ total_tokens_processed' = total_tokens_processed ]_vars

\* C2: a call has just raised on a service that is not initialized
C2_Witness ==
    /\ ~is_initialized
    /\ ret.value = NotInitializedError
    /\ inference_count = 0
    /\ hist.inferences = 0

\* C3: initialize called on a Ready service returns True in that step
\* without running the gate or loading anything, and leaves the
\* initialization time, the state, both counters and the violation counter
\* unchanged.
C3_InitializeIdempotent ==
    [][ \A t \in Callers :
          (CallsInitialize(t) /\ is_initialized) =>
              /\ ret' = [ caller |-> t,
                          value |-> [ kind |-> "initialize", value |-> TRUE ] ]
              /\ pc'[t] = "idle"
              /\ hist'.gate_runs = hist.gate_runs
              /\ hist'.load_weights = hist.load_weights
              /\ hist'.load_tokenizer = hist.load_tokenizer
              /\ hist'.warmups = hist.warmups
              /\ hist'.time_sets = hist.time_sets
              /\ initialization_time' = initialization_time
              /\ is_initialized' = is_initialized
              /\ inference_count' = inference_count
              /\ total_tokens_processed' = total_tokens_processed
              /\ violation_count' = violation_count ]_vars

\* C3: a second initialize has returned True on the Ready service, with one
\* gate run and one assignment of the initialization time in all
C3_Witness ==
    /\ is_initialized
    /\ hist.init_calls = 2
    /\ hist.gate_runs = 1
    /\ hist.time_sets = 1
    /\ ret.value = [ kind |-> "initialize", value |-> TRUE ]
    /\ \A t \in Callers : pc[t] = "idle"

\* the gate passes for configuration cfg: air-gapped mode is on and every
\* probed API is refused
GatePassesFor(cfg) ==
    /\ cfg.air_gapped_mode
    /\ \A i \in 1..Len(blocked_apis) : ~Decide(cfg, blocked_apis[i]).allowed

\* C4: with concurrent initialize calls and a gate that passes, the loading
\* sequence (weights, tokenizer, warm-up) runs exactly once, two callers are
\* never in it at the same time, and every initialize call returns True.
C4_InitializeLoadsOnce ==
    /\ Cardinality({ t \in Callers : pc[t] \in InitLoadingPcs }) <= 1
    /\ hist.load_weights <= 1
    /\ hist.load_tokenizer <= 1
    /\ hist.warmups <= 1
    /\ is_initialized =>
         hist.load_weights = 1 /\ hist.load_tokenizer = 1 /\ hist.warmups = 1
    /\ (GatePassesFor(config) /\ ret.value.kind = "initialize") => ret.value.value

\* C4: two initialize calls have been made and have returned, the loading
\* sequence ran once
C4_Witness ==
    /\ GatePassesFor(config)
    /\ hist.init_calls = 2
    /\ hist.gate_passed = 1
    /\ hist.load_weights = 1 /\ hist.load_tokenizer = 1 /\ hist.warmups = 1
    /\ \A t \in Callers : ~InInitialize(t)

\* C5: two callers are never in inference at the same time, and no caller is
\* in inference while another is inside the body of initialize.
C5_InferenceExclusive ==
    \A t \in Callers : pc[t] = "gen_infer" =>
        \A u \in Callers \ {t} : pc[u] # "gen_infer" /\ ~InInitialize(u)

\* C5: one caller is in inference while another waits at the lock of generate
C5_Witness ==
    \E t \in Callers : \E u \in Callers \ {t} :
        pc[t] = "gen_infer" /\ pc[u] = "gen_lock"

\* C6: when the generate calls made on a Ready service, concurrent ones
\* included, have all returned, the inference count is the number of those
\* calls and the token total is the exact sum of their word counts, prompt
\* plus generated text: no update is lost.
C6_NoLostUpdate ==
    (\A t \in Callers : ~InGenerateBody(t)) =>
        /\ inference_count = hist.generated
        /\ total_tokens_processed = hist.tokens

\* C6: two generate calls that overlapped have both returned: the second
\* started before the first had counted itself
C6_Witness ==
    /\ \A t \in Callers : pc[t] = "idle"
    /\ hist.generated = 2
    /\ inference_count = 2
    /\ ret.value.kind = "generate"
    /\ ret.value.inferences_at_call = 0
    /\ ret.value.inferences_at_entry = 1

\* C7: a generate call that succeeds leaves the inference count exactly one
\* above, and the token total exactly the word counts of its prompt and its
\* text above, what it found under the lock; no step of another operation
\* changes either counter; neither counter ever decreases.
C7_CountersExact ==
    [][ /\ inference_count' >= inference_count
        /\ total_tokens_processed' >= total_tokens_processed
        /\ (inference_count' # inference_count
              \/ total_tokens_processed' # total_tokens_processed)
             => \E t \in Callers : op[t] \in GenOps /\ pc'[t] # pc[t]
        /\ \A t \in Callers :
             (pc[t] = "gen_return" /\ pc'[t] = "idle") =>
                 /\ inference_count' = loc[t].inferences_at_entry + 1
                 /\ total_tokens_processed' =
                      loc[t].tokens_at_entry + WordsIn(loc[t].prompt)
                                             + WordsIn(loc[t].generated_text) ]_vars

\* C7: an analysis has returned as the first successful call: one inference
\* and the words of its prompt and text are counted
C7_Witness ==
    /\ ret.value.kind = "analysis"
    /\ inference_count = 1
    /\ total_tokens_processed =
         WordsIn(BuildPollutionAnalysisPrompt(SampleReport)) + WordsIn(SimulatedText)
    /\ total_tokens_processed > WordsIn(SimulatedText)

-----------------------------------------------------------------------------
(* Properties of the policy engine (SpecGuard) *)

\* a validate_endpoint call has just returned
ValidateReturned == ret.value.kind = "validate_endpoint"

\* the returned verdict is a denial that was counted once
DeniedAndCountedOnce(r) ==
    /\ ~r.allowed
    /\ r.violations_after = r.violations_before + 1

\* entry e is a wildcard entry
IsWildcard(e) == Len(e) >= 1 /\ e[1] = "*"

\* entry e has the form *.D
IsDotWildcard(e) == Len(e) >= 2 /\ e[1] = "*" /\ e[2] = "."

\* the D of an entry *.D
DomainOf(e) == SubSeq(e, 3, Len(e))

\* hostname h ends with "." followed by d
EndsWithDot(h, d) == EndsWith(h, << "." >> \o d)

\* C8: deny rules take precedence over allow rules: a hostname that matches
\* some deny entry is refused even when it is a member of the allow list,
\* and the reason names the first matching entry in configured order.
C8_DenyPrecedence ==
    ValidateReturned =>
        LET r    == ret.value
            deny == config.blocked_domains
            hits == { i \in 1..Len(deny) : DenyMatches(deny[i], r.hostname) }
        IN  hits # {} =>
                /\ ~r.allowed
                /\ r.reason.msg \in { "Domain blocked by security policy",
                                      "Domain explicitly blocked" }
                /\ \E i \in hits : /\ \A j \in hits : i <= j
                                   /\ r.reason.pattern = deny[i]

\* C8: a hostname of the allow list that matches two different deny entries
\* has been refused in the name of the first
C8_Witness ==
    /\ ValidateReturned
    /\ ret.value.hostname \in config.allowed_endpoints
    /\ Len(config.blocked_domains) = 2
    /\ config.blocked_domains[1] # config.blocked_domains[2]
    /\ DenyMatches(config.blocked_domains[1], ret.value.hostname)
    /\ DenyMatches(config.blocked_domains[2], ret.value.hostname)
    /\ ~ret.value.allowed
    /\ ret.value.reason.pattern = config.blocked_domains[1]

\* C9: a hostname that is verbatim an entry of the deny list (a wildcard
\* entry read as a hostname included), or that ends with "." followed by a
\* non-wildcard entry, is refused and the violation counter goes up by
\* exactly 1; a non-wildcard entry is named as the reason only for a hostname
\* equal to it or ending with "." and it, never for one that has it as a
\* suffix without the dot.
C9_ExactEntries ==
    ValidateReturned =>
        LET r    == ret.value
            deny == config.blocked_domains
        IN  /\ (\E i \in 1..Len(deny) : deny[i] = r.hostname)
                 => DeniedAndCountedOnce(r)
            /\ (\E i \in 1..Len(deny) : /\ ~IsWildcard(deny[i])
                                        /\ EndsWithDot(r.hostname, deny[i]))
                 => DeniedAndCountedOnce(r)
            /\ r.reason.msg = "Domain explicitly blocked" =>
                 /\ ~IsWildcard(r.reason.pattern)
                 /\ \/ r.hostname = r.reason.pattern
                    \/ EndsWithDot(r.hostname, r.reason.pattern)

\* C9: the wildcard entry "*.a", passed as a hostname, has been refused and
\* counted, after an earlier violation
C9_Witness ==
    /\ ValidateReturned
    /\ ret.value.hostname = wild_dot_a
    /\ \E i \in 1..Len(config.blocked_domains) :
          config.blocked_domains[i] = ret.value.hostname
    /\ ~ret.value.allowed
    /\ ret.value.violations_before = 1
    /\ ret.value.violations_after = 2
    /\ violation_count = 2

\* C10: an entry *.D refuses every hostname that ends with ".D" and the bare
\* domain D, and is named as the reason for no other hostname: not for one
\* that ends with D without the separating dot.
C10_WildcardEntries ==
    ValidateReturned =>
        LET r    == ret.value
            deny == config.blocked_domains
        IN  /\ (\E i \in 1..Len(deny) :
                    /\ IsDotWildcard(deny[i])
                    /\ \/ EndsWithDot(r.hostname, DomainOf(deny[i]))
                       \/ r.hostname = DomainOf(deny[i]))
                 => ~r.allowed
            /\ (r.reason.msg = "Domain blocked by security policy"
                  /\ IsDotWildcard(r.reason.pattern))
                 => \/ EndsWithDot(r.hostname, DomainOf(r.reason.pattern))
                    \/ r.hostname = DomainOf(r.reason.pattern)

\* C10: the bare domain "a" has been refused by the entry "*.a"
C10_Witness ==
    /\ ValidateReturned
    /\ ret.value.hostname = just_a
    /\ ret.value.reason.pattern = wild_dot_a
    /\ ~ret.value.allowed

\* hostname h matches no entry of the deny list of cfg
MatchesNoDeny(cfg, h) ==
    \A i \in 1..Len(cfg.blocked_domains) : ~DenyMatches(cfg.blocked_domains[i], h)

\* the returned verdict is an allowance that left the counter alone
AllowedAndNotCounted(r) ==
    /\ r.allowed
    /\ r.violations_after = r.violations_before

\* C11: a hostname that is a member of the allow list and matches no deny
\* entry is allowed, with a non-empty reason, and the violation counter stays
\* as it was, in air-gapped mode and out of it.
C11_AllowListed ==
    ValidateReturned =>
        LET r == ret.value
        IN  (r.hostname \in config.allowed_endpoints /\ MatchesNoDeny(config, r.hostname))
                => /\ AllowedAndNotCounted(r)
                   /\ r.reason.msg # ""
                   /\ violation_count = r.violations_before

\* C11: in air-gapped mode, after an earlier violation, the allow-listed
\* hostname "a." has been allowed and the counter has not moved
C11_Witness ==
    /\ ValidateReturned
    /\ config.air_gapped_mode
    /\ ret.value.hostname = a_dot
    /\ ret.value.hostname \in config.allowed_endpoints
    /\ ret.value.allowed
    /\ ret.value.reason.msg = "Endpoint whitelisted"
    /\ ret.value.violations_before = 1
    /\ violation_count = 1

\* C12: a hostname that matches no deny entry and is not in the allow list is
\* refused in air-gapped mode, the violation counter going up by exactly 1,
\* and is allowed otherwise, the counter staying as it was.
C12_DefaultPosture ==
    ValidateReturned =>
        LET r == ret.value
        IN  (r.hostname \notin config.allowed_endpoints /\ MatchesNoDeny(config, r.hostname))
                => IF config.air_gapped_mode
                   THEN DeniedAndCountedOnce(r) /\ violation_count = r.violations_before + 1
                   ELSE AllowedAndNotCounted(r) /\ violation_count = r.violations_before

\* C12: in air-gapped mode a hostname neither denied nor allow-listed has been
\* refused by the default, after an earlier violation
C12_Witness ==
    /\ ValidateReturned
    /\ config.air_gapped_mode
    /\ ret.value.hostname \notin config.allowed_endpoints
    /\ MatchesNoDeny(config, ret.value.hostname)
    /\ ~ret.value.allowed
    /\ ret.value.reason.msg = "Air-gapped mode: only whitelisted endpoints allowed"
    /\ ret.value.violations_before = 1
    /\ violation_count = 2

-----------------------------------------------------------------------------
(* Properties of the violation counter under concurrent callers (Spec) *)

\* positions inside _record_violation
RecordPcs == { "rv_lock", "rv_store" }

\* C13: under every interleaving of validate_endpoint calls, those made by
\* initialize and health_check included, and of get_violation_count, the
\* violation counter is the number of validate_endpoint calls that have
\* recorded a denial: get_violation_count returns that number, every change
\* of the counter is one increment for one recorded denial, and the counter
\* never decreases.
C13_ViolationCounterExact ==
    /\ [](/\ violation_count = hist.denials
          /\ ret.value.kind = "statistics" =>
               ret.value.security_violations = hist.denials)
    /\ [][ /\ violation_count' >= violation_count
           /\ violation_count' # violation_count =>
                /\ violation_count' = violation_count + 1
                /\ hist'.denials = hist.denials + 1
                /\ \E t \in Callers : pc[t] = "rv_store" /\ ~loc[t].result.allowed
           /\ hist'.denials # hist.denials => violation_count' # violation_count ]_vars

\* C13: two callers are recording a denial at the same time, one holding the
\* guard's lock and one waiting for it, after an earlier violation
C13_Witness ==
    \E t \in Callers : \E u \in Callers \ {t} :
        /\ pc[t] = "rv_store"
        /\ pc[u] = "rv_lock"
        /\ guard_lock = t
        /\ violation_count >= 1

-----------------------------------------------------------------------------
(* The security gate on its own: a service built over a drawn SecurityConfig *)
(* and used by one caller, whose initialize and health_check calls run       *)
(* check_security one after the other.                                      *)

\* blocked_domains
GateDenyLists ==
    { DefaultBlockedDomains,
      << api_openai_com, wild_replicate_com >>,
      << api_anthropic_com, generativelanguage_googleapis_com >>,
      << >> }

\* allowed_endpoints
GateAllowLists ==
    { DefaultAllowedEndpoints,
      { localhost, api_anthropic_com },
      { api_openai_com, api_anthropic_com, generativelanguage_googleapis_com } }

GateConfigs ==
    { [ air_gapped_mode               |-> air_gapped,
        blocked_domains               |-> deny,
        allowed_endpoints             |-> allow,
        require_encryption_at_rest    |-> at_rest,
        require_encryption_in_transit |-> in_transit ] :
        air_gapped \in BOOLEAN, deny \in GateDenyLists, allow \in GateAllowLists,
        at_rest \in BOOLEAN, in_transit \in BOOLEAN }

InitGate == \E cfg \in GateConfigs : InitService(cfg)

NextGate ==
    \/ Initialize(1)
    \/ InitLoad(1)
    \/ InitSetInitialized(1)
    \/ InitFinish(1)
    \/ HealthCheck(1)
    \/ HealthLoaded(1)
    \/ HealthCount(1)
    \/ RecordViolationLoad(1)
    \/ RecordViolationStore(1)
    \/ \E args \in GenerateArgs : Generate(1, args)
    \/ GenEnter(1)
    \/ GenInfer(1)
    \/ GenCountLoad(1)
    \/ GenCountStore(1)
    \/ GenTokensLoad(1)
    \/ GenTokensStore(1)
    \/ GenReturn(1)

SpecGate == InitGate /\ [][NextGate]_vars

\* check_security has just returned `value`: to initialize, which goes on to
\* load the model or returns False, or to health_check, which reports it
GateReturned(value) ==
    \/ value /\ \E t \in Callers : pc[t] = "init_loading"
    \/ ~value /\ ret.value = [ kind |-> "initialize", value |-> FALSE ]
    \/ ret.value.kind = "health" /\ ret.value.security_check = value

\* C14: with air-gapped mode off check_security returns False, whatever the
\* deny list, the allow list and the encryption flags are, and it does so
\* before any later check: no probe reaches validate_endpoint and the
\* violation counter stays as it was.
C14_AirGapOffFailsFast ==
    ~config.air_gapped_mode =>
        /\ ~GateReturned(TRUE)
        /\ ret.value.kind = "initialize" => ~ret.value.value
        /\ \A t \in Callers : pc[t] \notin RecordPcs
        /\ violation_count = 0
        /\ hist.denials = 0
        /\ ~is_initialized

\* C14: with air-gapped mode off and nothing to stop the probes otherwise (an
\* empty deny list), the gate has run twice and health_check reports the
\* second failure; nothing was recorded
C14_Witness ==
    /\ ~config.air_gapped_mode
    /\ config.blocked_domains = << >>
    /\ hist.gate_runs = 2
    /\ ret.value.kind = "health"
    /\ ~ret.value.security_check
    /\ violation_count = 0

\* the probes validate_endpoint allows under configuration cfg
AllowedProbes(cfg) ==
    { i \in 1..Len(blocked_apis) : Decide(cfg, blocked_apis[i]).allowed }

\* the probes validate_endpoint refuses under cfg, each one recorded
DeniedProbes(cfg) ==
    { i \in 1..Len(blocked_apis) : ~Decide(cfg, blocked_apis[i]).allowed }

\* C15: when validate_endpoint allows at least one hostname of the probe set
\* under the configured policy, check_security returns False: no gate run
\* returns True and the service never becomes Ready.
C15_AllowedProbeFailsGate ==
    AllowedProbes(config) # {} =>
        /\ ~GateReturned(TRUE)
        /\ ret.value.kind = "initialize" => ~ret.value.value
        /\ hist.gate_passed = 0
        /\ ~is_initialized

\* C15: in air-gapped mode one probe is allowed and the others are refused;
\* the gate has run and initialize has returned False
C15_Witness ==
    /\ config.air_gapped_mode
    /\ Cardinality(AllowedProbes(config)) = 1
    /\ hist.gate_runs = 1
    /\ GateReturned(FALSE)
    /\ ret.value.kind = "initialize"
    /\ violation_count = 2

\* caller t is inside a run of check_security, recording the refusal of the
\* probe blocked_apis[loc[t].probe]
RecordingProbe(t) ==
    /\ op[t] \in { "initialize", "health_check" }
    /\ pc[t] \in RecordPcs

\* C16 as stated: once a probe has been allowed, no later probe of the probe
\* set is passed to validate_endpoint, so no later probe is recorded.
C16_FailsAtFirstAllowedProbe ==
    \A t \in Callers :
        RecordingProbe(t) =>
            \A j \in 1..(loc[t].probe - 1) : j \notin AllowedProbes(config)

\* C16, amended: an allowed probe makes the gate fail, but only after the
\* loop has passed every probe of the set to validate_endpoint: each run of
\* the gate in air-gapped mode records one violation for every refused
\* probe, those that come after an allowed probe included.
C16_EveryProbeIsValidated ==
    \A t \in Callers :
        LET denied    == DeniedProbes(config)
            runs_done == IF pc[t] = "idle" THEN hist.gate_runs ELSE hist.gate_runs - 1
        IN  /\ (config.air_gapped_mode /\ \A u \in Callers : pc[u] = "idle")
                 => violation_count = hist.gate_runs * Cardinality(denied)
            /\ RecordingProbe(t)
                 => /\ loc[t].probe \in denied
                    /\ violation_count =
                         runs_done * Cardinality(denied)
                           + Cardinality({ j \in denied : j < loc[t].probe })

\* C16: the first probe was allowed, the two after it were refused and both
\* were recorded; the gate has returned False
C16_Witness ==
    /\ config.air_gapped_mode
    /\ AllowedProbes(config) = { 1 }
    /\ hist.gate_runs = 1
    /\ GateReturned(FALSE)
    /\ violation_count = 2
    /\ \A t \in Callers : pc[t] = "idle"

\* C17: check_security returns True exactly when air-gapped mode is on, every
\* probe hostname is refused by validate_endpoint and the provider check
\* passes; the two encryption flags have no part in the result.
C17_GateResult ==
    LET expected == /\ config.air_gapped_mode
                    /\ AllowedProbes(config) = {}
                    /\ VerifyLocalModelOnly
    IN  /\ GateReturned(TRUE) => expected
        /\ GateReturned(FALSE) => ~expected
        /\ is_initialized => expected

\* C17: with neither encryption flag set, the gate has passed in initialize
\* and again in health_check
C17_Witness ==
    /\ ~config.require_encryption_at_rest
    /\ ~config.require_encryption_in_transit
    /\ hist.gate_passed = 1
    /\ hist.gate_runs = 2
    /\ ret.value.kind = "health"
    /\ ret.value.security_check

-----------------------------------------------------------------------------
(* The gate specification with a loading step that can fail: an exception   *)
(* raised by _simulate_model_loading, _simulate_tokenizer_loading or         *)
(* _run_warmup leaves the `with self._lock` block of initialize and reaches  *)
(* the caller.                                                               *)

LoadingError ==
    [ kind |-> "raise", error |-> "Exception",
      message |-> "raised by a loading step of initialize" ]

\* the flag was set before the loading steps, and the failure leaves it set
InitLoadFailsMarkedReady(t) ==
    /\ pc[t] = "init_loading"
    /\ \E failing \in 1..3 :
          hist' = [hist EXCEPT !.load_weights = IF failing > 1 THEN @ + 1 ELSE @,
                               !.load_tokenizer = IF failing > 2 THEN @ + 1 ELSE @]
    /\ is_initialized' = TRUE
    /\ lock' = Released(lock)
    /\ Finish(t, LoadingError)
    /\ UNCHANGED << config, violation_count, guard_lock,
                    inference_count, total_tokens_processed, initialization_time,
                    calls >>

\* STEP 2 to STEP 4, one of which raises (1: the weights, 2: the tokenizer,
\* 3: the warm-up): the steps before it have run, the lock is released by the
\* `with` block, nothing else is assigned, and the exception propagates
InitLoadFails(t) ==
    /\ pc[t] = "init_loading"
    /\ \E failing \in 1..3 :
          hist' = [hist EXCEPT !.load_weights = IF failing > 1 THEN @ + 1 ELSE @,
                               !.load_tokenizer = IF failing > 2 THEN @ + 1 ELSE @]
    /\ lock' = Released(lock)
    /\ Finish(t, LoadingError)
    /\ UNCHANGED << config, violation_count, guard_lock, is_initialized,
                    inference_count, total_tokens_processed, initialization_time,
                    calls >>

NextFaulty ==
    \/ NextGate
    \/ InitLoadFails(1)

SpecFaulty == InitGate /\ [][NextFaulty]_vars

\* initialize has just ended without success: it returned False, or a
\* loading step raised
InitializeFailed ==
    \/ ret.value = [ kind |-> "initialize", value |-> FALSE ]
    \/ ret.value = LoadingError

\* C18: an initialize call that does not complete successfully leaves the
\* service Uninitialized: after a failed gate it has returned False and no
\* loading step has run; after a failed loading step the error has reached
\* the caller; either way the state is not Ready, the initialization time is
\* unset and the service lock is free, and a generate call made while the
\* service is in that state raises the not-initialized error.
C18_FailedInitializeStaysUninitialized ==
    /\ [](InitializeFailed =>
            /\ ~is_initialized
            /\ initialization_time = NoValue
            /\ lock = [ owner |-> NoOne, count |-> 0 ]
            /\ hist.time_sets = 0
            /\ ret.value.kind = "initialize" =>
                 /\ hist.load_weights = 0
                 /\ hist.load_tokenizer = 0
                 /\ hist.warmups = 0)
    /\ [][ \A t \in Callers :
             (CallsGenerate(t) /\ ~is_initialized) =>
                 /\ ret' = [ caller |-> t, value |-> NotInitializedError ]
                 /\ hist'.inferences = hist.inferences ]_vars

\* C18: the gate passed, the warm-up raised after the weights and the
\* tokenizer were loaded, and the generate call that followed has raised the
\* not-initialized error
C18_Witness ==
    /\ hist.gate_passed = 1
    /\ hist.load_weights = 1
    /\ hist.load_tokenizer = 1
    /\ hist.warmups = 0
    /\ ~is_initialized
    /\ initialization_time = NoValue
    /\ ret.value = NotInitializedError

-----------------------------------------------------------------------------
(* Properties of the service state and of the read-only operations (Spec) *)

\* C19: the service state is monotone under every interleaving of the public
\* calls: once Ready it stays Ready, and it becomes Ready only by STEP 5 of an
\* initialize call whose gate passed and whose loading steps have run.
C19_StateMonotone ==
    [][ /\ is_initialized => is_initialized'
        /\ is_initialized' # is_initialized =>
             /\ \E t \in Callers : /\ op[t] = "initialize"
                                   /\ pc[t] = "init_set"
                                   /\ pc'[t] = "init_time"
                                   /\ lock.owner = t
             /\ GatePassesFor(config)
             /\ hist.gate_passed >= 1
             /\ hist.load_weights >= 1 /\ hist.load_tokenizer >= 1 /\ hist.warmups >= 1 ]_vars

\* C19: the service is Ready after a generate call has succeeded and a
\* health_check has reported "healthy"
C19_Witness ==
    /\ is_initialized
    /\ hist.generated >= 1
    /\ ret.value.kind = "health"
    /\ ret.value.status = "healthy"

\* the step is a step of a get_statistics or health_check call of caller t
\* named `name`: its start, or a later step of it
StepOf(t, name) ==
    \/ pc[t] = "idle" /\ calls' = calls + 1 /\ op'[t] = name
    \/ op[t] = name /\ pc'[t] # pc[t]

\* C20 as stated: get_statistics and health_check are pure reads: no step of
\* either changes the service state, the two counters, the initialization
\* time or the violation counter.
C20_PureReads ==
    [][ \A t \in Callers :
          (StepOf(t, "get_statistics") \/ StepOf(t, "health_check")) =>
              /\ is_initialized' = is_initialized
              /\ inference_count' = inference_count
              /\ total_tokens_processed' = total_tokens_processed
              /\ initialization_time' = initialization_time
              /\ violation_count' = violation_count ]_vars

\* C20, amended: no step of get_statistics or health_check changes the
\* service state, the two counters or the initialization time, and no step
\* of get_statistics changes the violation counter; health_check changes it
\* only through the gate it re-runs, by one for each probe that
\* validate_endpoint refuses, which happens in air-gapped mode only.
C20_ReadsExceptGateProbes ==
    [][ \A t \in Callers :
          /\ (StepOf(t, "get_statistics") \/ StepOf(t, "health_check")) =>
                /\ is_initialized' = is_initialized
                /\ inference_count' = inference_count
                /\ total_tokens_processed' = total_tokens_processed
                /\ initialization_time' = initialization_time
          /\ StepOf(t, "get_statistics") => violation_count' = violation_count
          /\ (StepOf(t, "health_check") /\ violation_count' # violation_count) =>
                /\ pc[t] = "rv_store"
                /\ config.air_gapped_mode
                /\ loc[t].probe \in DeniedProbes(config)
                /\ violation_count' = violation_count + 1 ]_vars

\* C20: a health_check, the only call made so far, has returned and the
\* three refused probes of its gate run are counted
C20_Witness ==
    /\ calls = 1
    /\ hist.gate_runs = 1
    /\ ret.value.kind = "health"
    /\ ret.value.security_check
    /\ violation_count = 3

-----------------------------------------------------------------------------
(* The lock of analyze_pollution_report (Spec) *)

\* caller t is inside the body of analyze_pollution_report: its prompt has
\* been built and its result has not been returned
InAnalyzeBody(t) == op[t] = "analyze_pollution_report" /\ pc[t] # "idle"

\* C21: analyze_pollution_report holds the lock of the service for its whole
\* body: while one caller is between the construction of its prompt and the
\* return of its result, no other caller is in the locked body of generate
\* or in the body of initialize.
C21_AnalyzeHoldsLock ==
    \A t \in Callers :
        InAnalyzeBody(t) =>
            \A u \in Callers \ { t } : ~InGenerateBody(u) /\ ~InInitialize(u)

-----------------------------------------------------------------------------
(* The parameters of generate (Spec) *)

\* the value an argument resolves to when only an absent argument takes the
\* default
ExplicitOr(x, default) == IF x = NoValue THEN default ELSE x[1]

\* C22: in generate every supplied max_tokens or temperature overrides the
\* default of the model configuration, an explicit 0 or 0.0 included: the
\* step that resolves the parameters keeps each supplied argument and takes
\* the default only for an absent one.
C22_ExplicitArgumentsOverride ==
    [][ \A t \in Callers :
          pc[t] = "gen_lock" /\ pc'[t] = "gen_infer" =>
            /\ loc'[t].max_tokens =
                 Some(ExplicitOr(loc[t].max_tokens, max_new_tokens))
            /\ loc'[t].temperature =
                 Some(ExplicitOr(loc[t].temperature, temperature_tenths)) ]_vars

-----------------------------------------------------------------------------
(* A failing engine call in generate (SpecEngineFaulty) *)

\* an exception raised by _simulate_inference
InferenceError ==
    [ kind |-> "raise", error |-> "Exception",
      message |-> "raised by the inference engine" ]

\* the failing engine call leaves the lock with the caller
GenInferFailsKeepsLock(t) ==
    /\ pc[t] = "gen_infer"
    /\ lock' = lock
    /\ Finish(t, InferenceError)
    /\ UNCHANGED << config, violation_count, guard_lock, is_initialized,
                    inference_count, total_tokens_processed, initialization_time,
                    calls, hist >>

\* self._simulate_inference(prompt, max_tokens) raises: the two `+=` after it
\* are not reached, the `with` block releases the lock, and the exception
\* propagates out of generate (and out of analyze_pollution_report)
GenInferFails(t) ==
    /\ pc[t] = "gen_infer"
    /\ lock' = Released(lock)
    /\ Finish(t, InferenceError)
    /\ UNCHANGED << config, violation_count, guard_lock, is_initialized,
                    inference_count, total_tokens_processed, initialization_time,
                    calls, hist >>

NextEngineFaulty ==
    \E t \in Callers :
        \/ Initialize(t)
        \/ InitLoad(t)
        \/ InitSetInitialized(t)
        \/ InitFinish(t)
        \/ RecordViolationLoad(t)
        \/ RecordViolationStore(t)
        \/ \E args \in GenerateArgs : Generate(t, args)
        \/ \E report_data \in Reports : AnalyzePollutionReport(t, report_data)
        \/ GenEnter(t)
        \/ GenInfer(t)
        \/ GenInferFails(t)
        \/ GenCountLoad(t)
        \/ GenCountStore(t)
        \/ GenTokensLoad(t)
        \/ GenTokensStore(t)
        \/ GenReturn(t)

SpecEngineFaulty == Init /\ [][NextEngineFaulty]_vars

\* the step is the failure of the engine call of caller t
EngineCallFails(t) == pc[t] = "gen_infer" /\ pc'[t] = "idle"

\* C23: when the engine call inside generate fails, the caller gets the
\* failure, inference_count and total_tokens_processed keep their values, the
\* service stays initialized and the lock is free again; and the lock is only
\* ever held by a caller inside a locked body, so a caller waiting at the lock
\* of generate is never kept out by a call that has failed.
C23_EngineFailurePropagates ==
    /\ [][ \A t \in Callers :
             EngineCallFails(t) =>
               /\ ret' = [ caller |-> t, value |-> InferenceError ]
               /\ inference_count' = inference_count
               /\ total_tokens_processed' = total_tokens_processed
               /\ is_initialized /\ is_initialized'
               /\ lock'.owner = NoOne ]_vars
    /\ [](lock.owner # NoOne =>
             InGenerateBody(lock.owner) \/ InInitialize(lock.owner))

\* the engine call of caller 1 has just failed on the initialized service,
\* while caller 2 waits at the lock of generate, which is free
C23_Witness ==
    /\ ret = [ caller |-> 1, value |-> InferenceError ]
    /\ is_initialized
    /\ inference_count = 0
    /\ pc[2] = "gen_lock"
    /\ CanAcquire(2)

-----------------------------------------------------------------------------
(* The severity of a report (SpecSeverity) *)

\* values of report_data['aqi']: both sides of every threshold, zero, a
\* negative value and a large one
AqiValues == { 0 - 5, 0, 99, 100, 199, 200, 299, 300, 399, 400, 999 }

\* reports passed to analyze_pollution_report: the sample report with each
\* AQI, and without the key
SeverityReports ==
    { [ SampleReport EXCEPT !.aqi = Some(aqi) ] : aqi \in AqiValues }
      \cup { [ SampleReport EXCEPT !.aqi = NoValue ] }

InitSeverity == InitService(DefaultSecurityConfig)

\* one caller initializes the service and analyzes reports
NextSeverity ==
    \/ Initialize(1)
    \/ InitLoad(1)
    \/ InitSetInitialized(1)
    \/ InitFinish(1)
    \/ RecordViolationLoad(1)
    \/ RecordViolationStore(1)
    \/ \E report_data \in SeverityReports : AnalyzePollutionReport(1, report_data)
    \/ GenEnter(1)
    \/ GenInfer(1)
    \/ GenCountLoad(1)
    \/ GenCountStore(1)
    \/ GenTokensLoad(1)
    \/ GenTokensStore(1)
    \/ GenReturn(1)

SpecSeverity == InitSeverity /\ [][NextSeverity]_vars

\* the severity the bands give to the aqi field of a report
BandOf(field) ==
    IF field = NoValue THEN "SATISFACTORY"
    ELSE CASE field[1] >= 400 -> "SEVERE"
           [] field[1] >= 300 /\ field[1] <= 399 -> "VERY_POOR"
           [] field[1] >= 200 /\ field[1] <= 299 -> "POOR"
           [] field[1] >= 100 /\ field[1] <= 199 -> "MODERATE"
           [] field[1] < 100 -> "SATISFACTORY"

\* the step returns the analysis of caller t
AnalysisReturns(t) ==
    /\ op[t] = "analyze_pollution_report"
    /\ pc[t] = "gen_return"
    /\ pc'[t] = "idle"

\* C24: analyze_pollution_report on the initialized service returns SEVERE for
\* an AQI of 400 or more, VERY_POOR for 300 to 399, POOR for 200 to 299,
\* MODERATE for 100 to 199 and SATISFACTORY otherwise, a report without an aqi
\* included; and the call has increased _inference_count by exactly 1.
C24_SeverityBands ==
    [][ \A t \in Callers :
          AnalysisReturns(t) =>
            /\ ret'.value.kind = "analysis"
            /\ ret'.value.severity_assessment = BandOf(loc[t].report_data.aqi)
            /\ inference_count' = loc[t].count_at_call + 1 ]_vars

\* two analyses have been counted and the second has just returned MODERATE
\* or SATISFACTORY
C24_Witness ==
    /\ ret.value.kind = "analysis"
    /\ ret.value.severity_assessment \in { "MODERATE", "SATISFACTORY" }
    /\ inference_count = 2

-----------------------------------------------------------------------------
(* Termination of the operations (SpecLive) *)

\* a step of caller t inside a call it has started
Continue(t) ==
    \/ InitLoad(t)
    \/ InitSetInitialized(t)
    \/ InitFinish(t)
    \/ GenEnter(t)
    \/ GenInfer(t)
    \/ GenCountLoad(t)
    \/ GenCountStore(t)
    \/ GenTokensLoad(t)
    \/ GenTokensStore(t)
    \/ GenReturn(t)
    \/ StatsCount(t)
    \/ StatsTokens(t)
    \/ StatsTime(t)
    \/ StatsViolations(t)
    \/ HealthLoaded(t)
    \/ HealthCount(t)
    \/ RecordViolationLoad(t)
    \/ RecordViolationStore(t)

\* every thread that is inside a call and can take a step takes one: the
\* engine, the loading steps and the reads terminate, and the scheduler runs
\* every runnable thread
Fairness == \A t \in Callers : WF_vars(Continue(t))

SpecLive == Init /\ [][Next]_vars /\ Fairness

\* C25: no operation blocks for ever: every call that a caller has started
\* (initialize, generate, analyze_pollution_report, get_statistics,
\* health_check, validate_endpoint) returns or raises, and the lock of the
\* service and the lock of the violation counter, once held, are released,
\* so that a caller waiting at either lock gets in: the two locks never
\* deadlock.
C25_EveryCallReturns ==
    /\ \A t \in Callers : (pc[t] # "idle") ~> (pc[t] = "idle")
    /\ (lock.owner # NoOne) ~> (lock.owner = NoOne)
    /\ (guard_lock # NoOne) ~> (guard_lock = NoOne)

\* caller 1 holds the lock of the service inside initialize and waits for the
\* lock of the violation counter, which caller 2 holds inside health_check
C25_Witness ==
    /\ lock.owner = 1
    /\ op[1] = "initialize" /\ pc[1] = "rv_lock"
    /\ guard_lock = 2
    /\ op[2] = "health_check" /\ pc[2] = "rv_store"

-----------------------------------------------------------------------------
(* The Bedrock entry of the deny list (SpecBedrock) *)

\* "bedrock.us-east-1.amazonaws.com"
bedrock_us_east_1_amazonaws_com ==
    << "b","e","d","r","o","c","k",".","u","s","-","e","a","s","t","-","1",
       ".","a","m","a","z","o","n","a","w","s",".","c","o","m" >>

\* "bedrock.ap-south-1.amazonaws.com"
bedrock_ap_south_1_amazonaws_com ==
    << "b","e","d","r","o","c","k",".","a","p","-","s","o","u","t","h","-",
       "1",".","a","m","a","z","o","n","a","w","s",".","c","o","m" >>

\* hostnames passed to validate_endpoint: two regional Bedrock endpoints, the
\* text of the entry itself, and a hostname another entry blocks
BedrockHostnames ==
    { bedrock_us_east_1_amazonaws_com, bedrock_ap_south_1_amazonaws_com,
      bedrock_wild_amazonaws_com, api_openai_com }

\* the default whitelist, and the default whitelist with a Bedrock endpoint
BedrockAllowLists ==
    { DefaultAllowedEndpoints,
      DefaultAllowedEndpoints \cup { bedrock_us_east_1_amazonaws_com } }

\* the default deny list in either mode with either whitelist
BedrockConfigs ==
    { [ DefaultSecurityConfig EXCEPT !.air_gapped_mode = air_gapped,
                                     !.allowed_endpoints = allowed ] :
        air_gapped \in BOOLEAN, allowed \in BedrockAllowLists }

InitBedrock == \E cfg \in BedrockConfigs : InitService(cfg)

NextBedrock ==
    \/ \E hostname \in BedrockHostnames : ValidateEndpoint(1, hostname)
    \/ RecordViolationLoad(1)
    \/ RecordViolationStore(1)

SpecBedrock == InitBedrock /\ [][NextBedrock]_vars

\* "bedrock." and ".amazonaws.com"
bedrock_dot == << "b","e","d","r","o","c","k","." >>

dot_amazonaws_com ==
    << ".","a","m","a","z","o","n","a","w","s",".","c","o","m" >>

\* hostname h has the form bedrock.<region>.amazonaws.com with a region of
\* letters, digits and hyphens
IsRegionalBedrock(h) ==
    /\ Len(h) > Len(bedrock_dot) + Len(dot_amazonaws_com)
    /\ StartsWith(h, bedrock_dot)
    /\ EndsWith(h, dot_amazonaws_com)
    /\ \A i \in (Len(bedrock_dot) + 1)..(Len(h) - Len(dot_amazonaws_com)) :
          h[i] \notin { ".", "*" }

\* C26: the entry "bedrock.*.amazonaws.com" of the deny list blocks every
\* hostname bedrock.<region>.amazonaws.com by a deny-pattern match, in either
\* mode and whatever the whitelist holds: validate_endpoint refuses it, names
\* the entry as the reason and counts one violation.
C26_BedrockEntryBlocksRegions ==
    ValidateReturned /\ IsRegionalBedrock(ret.value.hostname) =>
        /\ DeniedAndCountedOnce(ret.value)
        /\ ret.value.reason.pattern = bedrock_wild_amazonaws_com

-----------------------------------------------------------------------------
(* The health of an initialized service (SpecGate) *)

\* C27: the configuration never changes, so the gate that passed when the
\* service was initialized passes again: whenever _is_initialized is set,
\* air-gapped mode is on and every probe is refused, and every health_check
\* that reports "healthy" reports security_check True.
C27_HealthyMeansGatePasses ==
    /\ is_initialized => GatePassesFor(config)
    /\ (ret.value.kind = "health" /\ ret.value.status = "healthy") =>
          ret.value.security_check

\* a health_check of the initialized service has just returned "healthy"
\* with security_check True
C27_Witness ==
    /\ is_initialized
    /\ ret.value.kind = "health"
    /\ ret.value.status = "healthy"
    /\ ret.value.security_check

-----------------------------------------------------------------------------
(* The violations a gate run counts (SpecStats) *)

\* one caller initializes the service, checks its health, generates and reads
\* the statistics; nobody calls validate_endpoint directly
NextStats ==
    \/ NextGate
    \/ GetStatistics(1)
    \/ StatsCount(1)
    \/ StatsTokens(1)
    \/ StatsTime(1)
    \/ StatsViolations(1)

SpecStats == InitGate /\ [][NextStats]_vars

\* no gate run is under way
NoGateRunning == \A t \in Callers : pc[t] \notin { "rv_lock", "rv_store" }

\* C28: a check_security run that passes has called validate_endpoint once on
\* each of the 3 probes and each call was refused and counted, so every
\* passing gate run adds exactly 3 to the violation counter: under a
\* configuration whose gate passes the counter is 3 times the number of gate
\* runs whenever no run is under way, get_statistics right after the first
\* successful initialize reports security_violations = 3, and every further
\* passing run (of health_check) adds 3.
C28_PassingGateCountsThree ==
    GatePassesFor(config) =>
        /\ NoGateRunning => violation_count = 3 * hist.gate_runs
        /\ ret.value.kind = "statistics" =>
              /\ ret.value.security_violations = 3 * hist.gate_runs
              /\ (ret.value.is_initialized /\ hist.gate_runs = 1) =>
                    ret.value.security_violations = 3

\* get_statistics has just reported 6 violations: the gate passed in
\* initialize and again in one health_check
C28_Witness ==
    /\ ret.value.kind = "statistics"
    /\ ret.value.is_initialized
    /\ hist.gate_runs = 2
    /\ ret.value.security_violations = 6

-----------------------------------------------------------------------------
(* The snapshot of get_statistics under concurrent generate calls (Spec) *)

\* prompts the callers of Spec pass to the engine
PromptsOfSpec ==
    { args.prompt : args \in GenerateArgs }
      \cup { BuildPollutionAnalysisPrompt(report_data) : report_data \in Reports }

\* len(prompt.split()) + len(generated_text.split()) of one call
CallTokenCounts ==
    { WordCount(prompt) + WordCount(SimulatedText) : prompt \in PromptsOfSpec }

\* the totals that n inference calls can add up to
RECURSIVE TotalsOf(_)
TotalsOf(n) ==
    IF n = 0 THEN { 0 }
    ELSE { total + count : total \in TotalsOf(n - 1), count \in CallTokenCounts }

\* C29 as claimed: every snapshot of get_statistics is consistent, also when
\* it is taken while generate runs: its total_tokens_processed is the sum of
\* the word counts of exactly inference_count calls.
C29_SnapshotConsistent ==
    ret.value.kind = "statistics" =>
        ret.value.total_tokens_processed \in TotalsOf(ret.value.inference_count)

\* positions of generate between its two `+=`
MidUpdatePcs == { "gen_tokens_load", "gen_tokens_store" }

\* the step returns the snapshot of caller t, no counter has changed since
\* get_statistics was called, and no caller is between the two updates
QuietSnapshotReturns(t) ==
    /\ op[t] = "get_statistics"
    /\ pc[t] = "st_violations"
    /\ pc'[t] = "idle"
    /\ loc[t].inferences_at_entry = inference_count
    /\ loc[t].tokens_at_entry = total_tokens_processed
    /\ \A u \in Callers : pc[u] \notin MidUpdatePcs

\* C29, amended: a snapshot of get_statistics is consistent when no generate
\* call changes a counter while get_statistics runs and none is between its
\* two updates: it reports the two counters as they stand, and its
\* total_tokens_processed is the sum of the word counts of exactly
\* inference_count calls.  (Each counter is read on its own, without the lock
\* of the service.)
C29_QuietSnapshotConsistent ==
    [][ \A t \in Callers :
          QuietSnapshotReturns(t) =>
            /\ ret'.value.kind = "statistics"
            /\ ret'.value.inference_count = inference_count
            /\ ret'.value.total_tokens_processed = total_tokens_processed
            /\ ret'.value.total_tokens_processed
                 \in TotalsOf(ret'.value.inference_count) ]_vars

\* a snapshot taken after one inference has just been returned: 1 inference
\* and its tokens
C29_Witness ==
    /\ ret.value.kind = "statistics"
    /\ ret.value.inference_count = 1
    /\ ret.value.total_tokens_processed = hist.tokens
    /\ hist.generated = 1
    /\ \A u \in Callers : pc[u] = "idle"

====
